---- MODULE Spec2Model ----
(***************************************************************************)
(* The Timbal HTTP client (src/src/timbal/client.ts): one client, its      *)
(* configuration, and one logical call (request, stream or query) running  *)
(* through its attempts: exchange, timeout watchdog, error classification, *)
(* retry with linear backoff, body decoding and streaming reads.           *)
(*                                                                         *)
(* Time is discrete: Tick advances every pending timer by one unit.        *)
(* Optional values (a?: T) are <<>> when absent and <<v>> when present.    *)
(* A URL or endpoint is a sequence of pieces: "/" or a text without slash. *)
(***************************************************************************)
EXTENDS Integers, Sequences, FiniteSets, TLC

VARIABLES
    config,      \* Timbal.config
    pc,          \* where the logical call is suspended
    kind,        \* "request" | "stream" | "query": the public operation called
    args,        \* history: the options the caller passed to request/stream
    options,     \* the RequestInit of the call (request mutates its headers)
    retryCount,  \* the retryCount argument of the running request/stream frame
    exchanges,   \* fetch() calls in flight: [attempt, url, headers]
    timers,      \* pending setTimeout watchdogs: [attempt, left]
    sleepLeft,   \* time left of the pending sleep(), <<>> when none
    response,    \* the Response the latest attempt received, <<>> when none
    readers,     \* attempts whose body reader lock is held
    yielded,     \* the values the generator has yielded to the consumer, in order
    remaining,   \* bytes of the body the reader has not returned yet
    decoder,     \* bytes the TextDecoder holds back: an incomplete character
    reads,       \* history: the byte chunks the reads of this attempt returned
    outcome,     \* what the caller got: <<>>, or a return/throw record
    fetchCount,  \* history: number of fetch() calls issued by the call
    attemptErrs, \* history: the error that ended each failed attempt
    sleeps,      \* history: the delays passed to sleep(), in order
    slept,       \* history: the time that has passed inside sleep()
    flightTime,  \* history: the time the latest exchange has spent in flight
    lastRaw,     \* history: what the latest attempt's _fetch caught, <<>> when nothing
    session,     \* SessionProvider's state `session`, <<>> for null
    getSessionPending, \* authClient.auth.getSession() has not resolved yet
    pushes,      \* the token of every import().then(...) callback registered
    applied,     \* how many of these callbacks have run
    ctxClient,   \* the client TimbalProvider's useMemo holds
    delivered,   \* history: the sessions the identity provider delivered
    authConfig,  \* authConfig of auth/config.ts, as far as the client reads it
    loading,     \* SessionProvider's state `loading`
    guard,       \* what the mounted AuthGuard has rendered, <<>> when none is mounted
    sent         \* history: the headers of each attempt and the token live at its start

vars == <<config, pc, kind, args, options, retryCount, exchanges, timers, sleepLeft,
          response, readers, yielded, remaining, decoder, reads, outcome, fetchCount,
          attemptErrs, sleeps, slept, flightTime, lastRaw, session, getSessionPending, pushes, applied,
          ctxClient, delivered, authConfig, loading, guard, sent>>

\* The application around the client: its build-time configuration and the
\* session context its routes read.
appVars == <<authConfig, loading, guard>>

\* The body of a streamed response and its decoder.
streamVars == <<remaining, decoder, reads>>

\* The state of the React providers around the client.
providerVars == <<session, getSessionPending, pushes, applied, ctxClient, delivered>>

-----------------------------------------------------------------------------
(* Bounds of the model *)

MaxRetry == 2
MaxDelay == 2
MaxTimeout == 1
MaxBody == 4
MaxUrlLen == 3
MaxDeliveries == 3

-----------------------------------------------------------------------------
(* Optional values and JavaScript truthiness *)

None == <<>>
Some(v) == <<v>>
TruthyStr(o) == o # None /\ o[1] # ""
TruthyNum(o) == o # None /\ o[1] # 0

-----------------------------------------------------------------------------
(* Inputs *)

\* Statuses a server answers with.
Statuses == {200, 204, 304, 404, 500, 503}

\* Mutant of Ok: every status below 400 passes for a success.
OkBelow400(status) == status >= 200 /\ status <= 399

\* response.ok
Ok(status) == status >= 200 /\ status <= 299

ApiKeys == {None, Some("key")}
Tokens == {None, Some("tok1"), Some("tok2")}
Timeouts == {None} \cup {Some(t) : t \in 1..MaxTimeout}
RetryAttempts == {None} \cup {Some(n) : n \in 0..MaxRetry}
RetryDelays == {None} \cup {Some(d) : d \in 1..MaxDelay}

-----------------------------------------------------------------------------
(* Headers *)

\* The lower-case form under which a Headers object stores a name.
Lower(name) ==
    CASE name \in {"Authorization", "AUTHORIZATION"} -> "authorization"
      [] name \in {"Content-Type", "Content-type", "CONTENT-TYPE"} -> "content-type"
      [] name \in {"X-Auth-Token", "X-AUTH-TOKEN"} -> "x-auth-token"
      [] name \in {"X-Client", "X-CLIENT"} -> "x-client"
      [] OTHER -> name

\* A plain object is a sequence of <<key, value>> in insertion order.
ObjHas(obj, key) == \E i \in 1..Len(obj) : obj[i][1] = key
ObjGet(obj, key) == LET i == CHOOSE j \in 1..Len(obj) : obj[j][1] = key IN obj[i][2]
ObjTruthy(obj, key) == ObjHas(obj, key) /\ ObjGet(obj, key) # ""
ObjSet(obj, key, value) ==
    IF ObjHas(obj, key)
    THEN [i \in 1..Len(obj) |-> IF obj[i][1] = key THEN <<key, value>> ELSE obj[i]]
    ELSE Append(obj, <<key, value>>)

\* A Headers object is a function from lower-case names to values.
EmptyHeaders == [n \in {} |-> ""]
HeadersSet(h, name, value) ==
    [n \in DOMAIN h \cup {Lower(name)} |-> IF n = Lower(name) THEN value ELSE h[n]]
\* Headers.append: a repeated name joins the values with ", ".
HeadersAppend(h, name, value) ==
    IF Lower(name) \in DOMAIN h
    THEN HeadersSet(h, name, h[Lower(name)] \o ", " \o value)
    ELSE HeadersSet(h, name, value)

RECURSIVE SetAll(_, _)
SetAll(h, obj) ==
    IF obj = <<>> THEN h
    ELSE SetAll(HeadersSet(h, Head(obj)[1], Head(obj)[2]), Tail(obj))

\* new Headers(record): every entry is appended.
RECURSIVE HeadersFrom(_, _)
HeadersFrom(h, obj) ==
    IF obj = <<>> THEN h
    ELSE HeadersFrom(HeadersAppend(h, Head(obj)[1], Head(obj)[2]), Tail(obj))

\* headers.forEach((value, key) => target.set(key, value))
Overlay(target, h) ==
    [n \in DOMAIN target \cup DOMAIN h |-> IF n \in DOMAIN h THEN h[n] ELSE target[n]]

\* options.headers is absent, a plain record or a Headers instance.
NoHeaders == [rep |-> "none"]
Rec(obj) == [rep |-> "record", entries |-> obj]
Hdr(h) == [rep |-> "Headers", map |-> h]

\* Mutant of AuthStep: the session token takes priority over the apiKey.
AuthStepSessionFirst(cfg, h) ==
    IF TruthyStr(cfg.sessionToken) THEN HeadersSet(h, "x-auth-token", cfg.sessionToken[1])
    ELSE IF TruthyStr(cfg.apiKey) THEN HeadersSet(h, "Authorization", "Bearer " \o cfg.apiKey[1])
    ELSE h

\* Mutant of AuthStep: the session token branch is missing.
AuthStepApiKeyOnly(cfg, h) ==
    IF TruthyStr(cfg.apiKey) THEN HeadersSet(h, "Authorization", "Bearer " \o cfg.apiKey[1])
    ELSE h

\* Mutant of AuthStep: the two tests are independent, not if / else if.
AuthStepBoth(cfg, h) ==
    LET a == IF TruthyStr(cfg.apiKey)
             THEN HeadersSet(h, "Authorization", "Bearer " \o cfg.apiKey[1]) ELSE h
    IN  IF TruthyStr(cfg.sessionToken)
        THEN HeadersSet(a, "x-auth-token", cfg.sessionToken[1]) ELSE a

\* The authorization step (lines 49-54): apiKey first, else sessionToken.
AuthStep(cfg, h) ==
    IF TruthyStr(cfg.apiKey) THEN HeadersSet(h, "Authorization", "Bearer " \o cfg.apiKey[1])
    ELSE IF TruthyStr(cfg.sessionToken) THEN HeadersSet(h, "x-auth-token", cfg.sessionToken[1])
    ELSE h

\* Mutant of buildHeaders: the authorization step is skipped.
buildHeadersWithoutAuth(cfg, opts) ==
    LET defaults == SetAll(EmptyHeaders, cfg.defaultHeaders)
    IN  CASE opts.headers.rep = "none" -> defaults
          [] opts.headers.rep = "Headers" -> Overlay(defaults, opts.headers.map)
          [] opts.headers.rep = "record" ->
                Overlay(defaults, HeadersFrom(EmptyHeaders, opts.headers.entries))

\* buildHeaders(options), lines 40-66.
buildHeaders(cfg, opts) ==
    LET defaults == SetAll(EmptyHeaders, cfg.defaultHeaders)
        withAuth == AuthStep(cfg, defaults)
    IN  CASE opts.headers.rep = "none" -> withAuth
          [] opts.headers.rep = "Headers" -> Overlay(withAuth, opts.headers.map)
          [] opts.headers.rep = "record" ->
                Overlay(withAuth, HeadersFrom(EmptyHeaders, opts.headers.entries))

-----------------------------------------------------------------------------
(* URLs *)

\* The pieces a base URL or an endpoint is made of.
UrlPieces == {"/", "a"}
Strings(lo, hi) == UNION {[1..n -> UrlPieces] : n \in lo..hi}

endsWith(str, piece) == Len(str) > 0 /\ str[Len(str)] = piece
startsWith(str, piece) == Len(str) > 0 /\ str[1] = piece
\* str.slice(0, -1)
DropLast(str) == SubSeq(str, 1, Len(str) - 1)

\* Mutant of buildUrl: the trailing slash of the base is kept.
buildUrlKeepsSlash(base, endpoint) ==
    base \o (IF startsWith(endpoint, "/") THEN endpoint ELSE <<"/">> \o endpoint)

\* buildUrl(endpoint), lines 32-38.
buildUrl(base, endpoint) ==
    LET baseUrl == IF endsWith(base, "/") THEN DropLast(base) ELSE base
        path == IF startsWith(endpoint, "/") THEN endpoint ELSE <<"/">> \o endpoint
    IN  baseUrl \o path

-----------------------------------------------------------------------------
(* UTF-8: a string is a sequence of code points, a body a sequence of bytes *)

\* The characters of the modelled bodies: h, e-acute and the euro sign, of
\* one, two and three bytes.
Chars == {104, 233, 8364}

\* The UTF-8 encoding of a code point below U+10000.
Encode(c) ==
    IF c < 128 THEN <<c>>
    ELSE IF c < 2048 THEN <<192 + (c \div 64), 128 + (c % 64)>>
    ELSE <<224 + (c \div 4096), 128 + ((c \div 64) % 64), 128 + (c % 64)>>

RECURSIVE EncodeAll(_)
EncodeAll(str) == IF str = <<>> THEN <<>> ELSE Encode(Head(str)) \o EncodeAll(Tail(str))

RECURSIVE Concat(_)
Concat(seqs) == IF seqs = <<>> THEN <<>> ELSE Head(seqs) \o Concat(Tail(seqs))

\* Every string of at most n bytes, and the well-formed bodies.
RECURSIVE StringsUpTo(_)
StringsUpTo(n) ==
    {<<>>} \cup UNION {{<<c>> \o str : str \in StringsUpTo(n - Len(Encode(c)))} :
                         c \in {d \in Chars : Len(Encode(d)) <= n}}
Bodies == {EncodeAll(str) : str \in StringsUpTo(MaxBody)}

\* The number of bytes of the sequence a lead byte opens, 0 for a byte that
\* opens none.
Need(b) ==
    IF b < 128 THEN 1
    ELSE IF b >= 192 /\ b < 224 THEN 2
    ELSE IF b >= 224 /\ b < 240 THEN 3
    ELSE 0

\* The code point of a complete sequence.
CodePoint(bytes) ==
    IF Len(bytes) = 1 THEN bytes[1]
    ELSE IF Len(bytes) = 2 THEN (bytes[1] - 192) * 64 + (bytes[2] - 128)
    ELSE (bytes[1] - 224) * 4096 + (bytes[2] - 128) * 64 + (bytes[3] - 128)

Replacement == 65533

\* The decoder's run over a chunk, byte by byte: held is the incomplete
\* sequence carried over, out the code points produced so far.
RECURSIVE DecodeRun(_, _, _)
DecodeRun(held, bytes, out) ==
    IF bytes = <<>> THEN [out |-> out, held |-> held]
    ELSE LET b == Head(bytes)
             seq == Append(held, b)
         IN  IF held = <<>> /\ Need(b) = 0
             THEN DecodeRun(<<>>, Tail(bytes), Append(out, Replacement))
             ELSE IF held # <<>> /\ ~(b >= 128 /\ b < 192)
             THEN DecodeRun(<<>>, bytes, Append(out, Replacement))
             ELSE IF Len(seq) = Need(seq[1])
             THEN DecodeRun(<<>>, Tail(bytes), Append(out, CodePoint(seq)))
             ELSE DecodeRun(seq, Tail(bytes), out)

\* Mutant of Decode: each chunk is decoded on its own, an incomplete
\* sequence at its end becoming a replacement character.
DecodeUnbuffered(held, bytes) ==
    LET run == DecodeRun(<<>>, bytes, <<>>)
    IN  [out |-> IF run.held = <<>> THEN run.out ELSE Append(run.out, Replacement),
         held |-> <<>>]

\* decoder.decode(value, { stream: true }): an incomplete sequence at the end
\* of the chunk is held back for the next call.
Decode(held, bytes) == DecodeRun(held, bytes, <<>>)

-----------------------------------------------------------------------------
(* Errors *)

\* new TimbalApiError(message, statusCode, code); a message is a sequence of
\* text fragments (the pieces of a template string).
TimbalApiError(message, statusCode, code) ==
    [cls |-> "TimbalApiError", message |-> message, statusCode |-> statusCode, code |-> code]

\* Any other thrown value: cls is the class the instanceof/name tests see.
RawError(cls, message) == [cls |-> cls, message |-> message]

\* `${error}`
ErrorText(error) == <<error.cls \o ": ">> \o error.message

\* TimbalApiError.fromResponse(response): statusCode is the response's status;
\* message and code come from the JSON body when it carries them, else they
\* are built from the numeric status.
fromResponse(resp) ==
    IF resp.body # None
    THEN TimbalApiError(<<resp.body[1].message>>, resp.status, resp.body[1].code)
    ELSE TimbalApiError(<<"HTTP " \o ToString(resp.status)>>, resp.status,
                        "HTTP_" \o ToString(resp.status))

\* Mutant of Classify: the AbortError test is missing.
ClassifyNoAbort(error) ==
    IF error.cls = "TypeError"
    THEN TimbalApiError(<<"Network error: ">> \o error.message, 0, "NETWORK_ERROR")
    ELSE IF error.cls = "TimbalApiError" THEN error
    ELSE TimbalApiError(<<"Unknown error occurred: ">> \o ErrorText(error), 0, "SERVER_ERROR")

\* Mutant of Classify: the instanceof TimbalApiError test is missing.
ClassifyRewrapsApiError(error) ==
    IF error.cls = "AbortError"
    THEN TimbalApiError(<<"Request timeout">>, 0, "TIMEOUT_ERROR")
    ELSE IF error.cls = "TypeError"
    THEN TimbalApiError(<<"Network error: ">> \o error.message, 0, "NETWORK_ERROR")
    ELSE TimbalApiError(<<"Unknown error occurred: ">> \o ErrorText(error), 0, "SERVER_ERROR")

\* The catch block of _fetch (lines 93-109).
Classify(error) ==
    IF error.cls = "AbortError"
    THEN TimbalApiError(<<"Request timeout">>, 0, "TIMEOUT_ERROR")
    ELSE IF error.cls = "TypeError"
    THEN TimbalApiError(<<"Network error: ">> \o error.message, 0, "NETWORK_ERROR")
    ELSE IF error.cls = "TimbalApiError" THEN error
    ELSE TimbalApiError(<<"Unknown error occurred: ">> \o ErrorText(error), 0, "SERVER_ERROR")

-----------------------------------------------------------------------------
(* Retry policy *)

\* Mutant of WithinBudget: the comparison is off by one.
WithinBudgetOffByOne(cfg, count) ==
    cfg.retryAttempts # None /\ count <= cfg.retryAttempts[1]

\* retryCount < this.config.retryAttempts; a comparison with undefined is false.
\* Mutant of WithinBudget: a missing retryAttempts stands for one retry.
WithinBudgetDefaulted(cfg, count) ==
    count < (IF cfg.retryAttempts = None THEN 1 ELSE cfg.retryAttempts[1])

\* Mutant of WithinBudget: the budget is never exhausted.
WithinBudgetUnbounded(cfg, count) == TRUE

WithinBudget(cfg, count) == cfg.retryAttempts # None /\ count < cfg.retryAttempts[1]

\* Mutant of Retryable: NETWORK_ERROR is not retried.
RetryableNoNetwork(error) ==
    \/ error.code = "TIMEOUT_ERROR"
    \/ error.statusCode >= 500

\* The error classes that are retried (lines 132-134 / 167-169).
Retryable(error) ==
    \/ error.code = "TIMEOUT_ERROR"
    \/ error.code = "NETWORK_ERROR"
    \/ error.statusCode >= 500

\* Mutant of shouldRetry: the class of the error is not looked at.
shouldRetryAnyError(cfg, error, count) == WithinBudget(cfg, count)

shouldRetry(cfg, error, count) ==
    /\ error.cls = "TimbalApiError"
    /\ Retryable(error)
    /\ WithinBudget(cfg, count)

\* Mutant of BackoffDelay: the same delay before every retry.
BackoffConstant(cfg, count) ==
    IF cfg.retryDelay = None THEN 0 ELSE cfg.retryDelay[1]

\* this.config.retryDelay * (retryCount + 1); NaN (no retryDelay) sleeps 0.
BackoffDelay(cfg, count) ==
    IF cfg.retryDelay = None THEN 0 ELSE cfg.retryDelay[1] * (count + 1)

-----------------------------------------------------------------------------
(* Calls and their inputs *)

JsonBody == Some([isString |-> TRUE, text |-> "{}"])

RequestOptions ==
    { [endpoint |-> <<"/", "items">>, method |-> "GET", body |-> None, headers |-> NoHeaders],
      [endpoint |-> <<"/", "items">>, method |-> "POST", body |-> JsonBody,
       headers |-> NoHeaders] }

\* params.orgId and params.kbId: absent, empty or given.
OrgIds == {None, Some(""), Some("org1")}
KbIds == {None, Some(""), Some("kb1")}

\* import.meta.env.VITE_TIMBAL_ORG_ID and VITE_TIMBAL_KB_ID: unset or set.
EnvOrgIds == {None, Some("orgEnv")}
EnvKbIds == {None, Some("kbEnv")}

\* Mutant of Coalesce: the right operand is preferred.
CoalesceRightFirst(a, b) == IF b # None THEN b ELSE a

\* a ?? b
Coalesce(a, b) == IF a # None THEN a ELSE b

\* The responses fetch() may resolve with: a status and, for an error response,
\* the message and code of its JSON body (<<>> when the body carries none).
ServerBody == Some([message |-> "upstream timed out", code |-> "TIMEOUT_ERROR"])
Responses ==
    {[status |-> s, body |-> None] : s \in Statuses}
        \cup {[status |-> 404, body |-> ServerBody]}

\* The body a streamed response carries in the retry properties: one
\* two-byte character, which a read may split.
SampleBody == Encode(233)

\* What fetch() may reject with, apart from the abort of the watchdog.
FetchFailures ==
    { RawError("TypeError", <<"Failed to fetch">>), RawError("Error", <<"boom">>) }

AbortError == RawError("AbortError", <<"The operation was aborted.">>)
JsonFailure == RawError("SyntaxError", <<"Unexpected end of JSON input">>)
ReadFailure == RawError("TypeError", <<"network error">>)

\* Lines 113-120 of request. A property set on a Headers instance is no header.
ContentTypeDefault(opts) ==
    IF opts.body # None /\ opts.body[1].isString /\ opts.body[1].text # ""
    THEN CASE opts.headers.rep = "none" ->
                [opts EXCEPT !.headers = Rec(<<<<"Content-Type", "application/json">>>>)]
           [] opts.headers.rep = "record" ->
                IF ~ObjTruthy(opts.headers.entries, "Content-Type")
                   /\ ~ObjTruthy(opts.headers.entries, "content-type")
                THEN [opts EXCEPT !.headers =
                        Rec(ObjSet(opts.headers.entries, "Content-Type", "application/json"))]
                ELSE opts
           [] opts.headers.rep = "Headers" -> opts
    ELSE opts

\* The options query passes to request (lines 190-194).
QueryOptions(orgId, kbId, sql) ==
    [endpoint |-> <<"/", "orgs", "/", orgId, "/", "kbs", "/", kbId, "/", "query">>,
     method |-> "POST",
     body |-> Some([isString |-> TRUE, text |-> "{\"sql\":\"" \o sql \o "\"}"]),
     headers |-> Rec(<<<<"Content-Type", "application/json">>>>)]

-----------------------------------------------------------------------------
(* Steps shared by the handlers *)

InFlight(k) == {e \in exchanges : e.attempt = k}

\* Mutant of WatchdogDelay: the attempts share one allowance.
WatchdogDelayShared(cfg, k) == IF k = 1 THEN cfg.timeout[1] ELSE 0

\* setTimeout(() => controller.abort(), this.config.timeout): the delay of
\* the watchdog of attempt k.
WatchdogDelay(cfg, k) == cfg.timeout[1]

\* Mutant of ClearTimeout: the watchdog is left pending.
ClearTimeoutForgotten(k) == timers

\* Mutant of ClearTimeout: the watchdog of the attempt before is cleared.
ClearTimeoutOfEarlier(k) == {t \in timers : t.attempt # k - 1}

\* if (timeoutId) clearTimeout(timeoutId)
ClearTimeout(k) == {t \in timers : t.attempt # k}

\* Mutant of AttemptHeaders: the headers of the first attempt are kept for the
\* retries.
HeadersOfFirstAttempt(cfg, opts, earlier) ==
    IF earlier = <<>> THEN buildHeaders(cfg, opts) ELSE earlier[1].headers

\* const headers = this.buildHeaders(options), at the start of each _fetch:
\* the attempts made earlier play no part.
AttemptHeaders(cfg, opts, earlier) == buildHeaders(cfg, opts)

\* _fetch up to its await of fetch(): headers from the live config, a watchdog
\* only when timeout is configured, then the exchange is issued.
BeginFetch(opts) ==
    LET k == fetchCount + 1 IN
    /\ exchanges' = exchanges \cup {[attempt |-> k,
                                      url |-> buildUrl(config.baseUrl, opts.endpoint),
                                      method |-> opts.method,
                                      body |-> opts.body,
                                      headers |-> AttemptHeaders(config, opts, sent)]}
    /\ sent' = Append(sent, [headers |-> AttemptHeaders(config, opts, sent),
                             live |-> config.sessionToken])
    /\ timers' = IF TruthyNum(config.timeout)
                 THEN timers \cup {[attempt |-> k, left |-> WatchdogDelay(config, k)]}
                 ELSE timers
    /\ fetchCount' = fetchCount + 1
    /\ flightTime' = 0
    /\ response' = None
    /\ lastRaw' = None
    /\ pc' = "fetch"

\* Mutant of Propagate: the last error is wrapped in a meta-error.
PropagateWrapped(error) ==
    TimbalApiError(<<"Retries exhausted: ">> \o ErrorText(error), 0, "SERVER_ERROR")

\* throw error (line 142 / 178): the caller gets the caught error itself.
Propagate(error) == error

\* sleep(ms): a timer that resolves once ms units have passed.
sleep(ms) == Some(ms)

\* The catch block of request (lines 129-143) and the identical one of stream
\* (lines 164-179): retry after the backoff delay, or rethrow.
Catch(error) ==
    IF shouldRetry(config, error, retryCount)
    THEN /\ pc' = "sleep"
         /\ sleepLeft' = sleep(BackoffDelay(config, retryCount))
         /\ sleeps' = Append(sleeps, BackoffDelay(config, retryCount))
         /\ outcome' = outcome
    ELSE /\ pc' = "done"
         /\ outcome' = Some([tag |-> "throw", error |-> Propagate(error)])
         /\ UNCHANGED <<sleepLeft, sleeps>>

\* _fetch throws: its catch block clears the watchdog and classifies.
FetchThrows(k, error) ==
    /\ exchanges' = exchanges \ InFlight(k)
    /\ timers' = ClearTimeout(k)
    /\ lastRaw' = Some(error)
    /\ attemptErrs' = Append(attemptErrs, Classify(error))
    /\ Catch(Classify(error))

-----------------------------------------------------------------------------
(* The state after construction: no call has been made *)

DefaultHeaderChoices == { <<<<"X-Client", "blueprint">>>> }
BaseUrl == <<"https:", "/", "/", "api.x.com">>

\* Clients for the retry and transport properties: every timeout, retry
\* budget and retry delay, on a client that authenticates with a session token.
Configs ==
    [apiKey : {None}, baseUrl : {BaseUrl}, sessionToken : {Some("tok1")},
     timeout : Timeouts, retryAttempts : RetryAttempts, retryDelay : RetryDelays,
     defaultHeaders : DefaultHeaderChoices]

\* Clients for the token properties: every combination of apiKey and
\* sessionToken, with at most one retry.
SyncConfigs ==
    [apiKey : ApiKeys, baseUrl : {BaseUrl}, sessionToken : {None, Some("tok1")},
     timeout : {None, Some(1)}, retryAttempts : {None, Some(1)}, retryDelay : {Some(1)},
     defaultHeaders : DefaultHeaderChoices]

\* No call has been made.
NoCall ==
    /\ kind = "none"
    /\ args = [endpoint |-> <<>>, method |-> "GET", body |-> None, headers |-> NoHeaders]
    /\ options = [endpoint |-> <<>>, method |-> "GET", body |-> None, headers |-> NoHeaders]
    /\ retryCount = 0
    /\ exchanges = {}
    /\ timers = {}
    /\ sleepLeft = None
    /\ response = None
    /\ readers = {}
    /\ yielded = <<>>
    /\ remaining = <<>>
    /\ decoder = <<>>
    /\ reads = <<>>
    /\ outcome = None
    /\ fetchCount = 0
    /\ attemptErrs = <<>>
    /\ sleeps = <<>>
    /\ slept = 0
    /\ flightTime = 0
    /\ lastRaw = None
    /\ sent = <<>>

\* A client built from one of cfgs, before any call, in a build whose Timbal
\* IAM flag is left at its default.
Constructed(cfgs) ==
    /\ config \in cfgs
    /\ authConfig = [timbalIAM |-> TRUE]
    /\ pc = "idle"
    /\ NoCall

\* No session has been delivered; TimbalProvider has rendered once, with a
\* null session.
FirstRender ==
    /\ session = None
    /\ pushes = <<>>
    /\ applied = 0
    /\ ctxClient = [instance |-> 1, sessionToken |-> None, dep |-> None]
    /\ delivered = <<>>
    /\ loading = TRUE
    /\ guard = None

\* The client on its own: no identity provider is attached.
Detached == FirstRender /\ getSessionPending = FALSE

\* SessionProvider's effect has run: getSession() is pending and the
\* auth-state listener is subscribed.
Mounted == FirstRender /\ getSessionPending = TRUE

Init == Constructed(Configs) /\ Detached
InitSync == Constructed(SyncConfigs) /\ Detached

-----------------------------------------------------------------------------
(* Construction *)

\* import.meta.env.VITE_AUTH_TIMBAL_IAM: unset or set.
IamEnvValues == {None, Some("true"), Some("false"), Some("")}

\* authConfig.timbalIAM: on unless the variable is set to something else
\* than "true".
timbalIAM(value) == IF value # None THEN value[1] = "true" ELSE TRUE

\* config.apiKey and import.meta.env.VITE_TIMBAL_API_KEY.
ApiKeyArgs == {None, Some(""), Some("key")}
EnvApiKeys == {None, Some("envKey")}

\* config.baseUrl and import.meta.env.VITE_TIMBAL_BASE_URL; <<>> is the empty
\* string.
EnvBaseUrl == <<"https:", "/", "/", "env.x.com">>
BaseUrlArgs == {None, Some(<<>>), Some(BaseUrl)}
EnvBaseUrls == {None, Some(EnvBaseUrl)}

\* The config argument of the constructor: {} when nothing is passed.
ConfigArgs ==
    [apiKey : ApiKeyArgs, baseUrl : BaseUrlArgs, sessionToken : {None},
     timeout : {None}, retryAttempts : {None}, retryDelay : {None},
     defaultHeaders : {None} \cup {Some(h) : h \in DefaultHeaderChoices}]

\* !baseUrl is false
TruthyUrl(o) == o # None /\ o[1] # <<>>

\* Mutant of AuthAvailable: the Timbal IAM flag is not looked at.
AuthAvailableKeyOnly(iam, apiKey) == TruthyStr(apiKey)

\* The negation of the test of line 15.
AuthAvailable(iam, apiKey) == iam \/ TruthyStr(apiKey)

\* new Timbal(cfg) in an environment with the defaults envKey and envBase: it
\* throws, or stores the resolved configuration.
Construct(cfg, envKey, envBase) ==
    LET apiKey == Coalesce(cfg.apiKey, envKey)
        baseUrl == Coalesce(cfg.baseUrl, envBase)
    IN
    /\ pc = "new"
    /\ IF ~AuthAvailable(authConfig.timbalIAM, apiKey)
       THEN /\ pc' = "done"
            /\ kind' = "constructor"
            /\ outcome' = Some([tag |-> "throw",
                                error |-> RawError("Error",
                                            <<"API key is required when Timbal IAM is not enabled">>)])
            /\ config' = config
       ELSE IF ~TruthyUrl(baseUrl)
       THEN /\ pc' = "done"
            /\ kind' = "constructor"
            /\ outcome' = Some([tag |-> "throw",
                                error |-> RawError("Error", <<"Base URL is required">>)])
            /\ config' = config
       ELSE /\ pc' = "idle"
            /\ config' = [cfg EXCEPT !.apiKey = apiKey,
                                     !.baseUrl = baseUrl[1],
                                     !.defaultHeaders = Coalesce(cfg.defaultHeaders, Some(<<>>))[1]]
            /\ UNCHANGED <<kind, outcome>>
    /\ UNCHANGED providerVars
    /\ UNCHANGED streamVars
    /\ UNCHANGED appVars
    /\ UNCHANGED sent
    /\ UNCHANGED <<args, options, retryCount, exchanges, timers, sleepLeft, response,
                   readers, yielded, fetchCount, attemptErrs, sleeps, slept, flightTime,
                   lastRaw>>

-----------------------------------------------------------------------------
(* The public operations, up to their first await *)

\* request(endpoint, options)
CallRequest(opts) ==
    /\ pc = "idle"
    /\ kind' = "request"
    /\ args' = opts
    /\ options' = ContentTypeDefault(opts)
    /\ BeginFetch(options')
    /\ UNCHANGED providerVars
    /\ UNCHANGED streamVars
    /\ UNCHANGED appVars
    /\ UNCHANGED <<config, retryCount, sleepLeft, readers, yielded, outcome, attemptErrs,
                   sleeps, slept>>

\* stream(endpoint, options) and the consumer's first next()
CallStream(opts) ==
    /\ pc = "idle"
    /\ kind' = "stream"
    /\ args' = opts
    /\ options' = opts
    /\ BeginFetch(options')
    /\ UNCHANGED providerVars
    /\ UNCHANGED streamVars
    /\ UNCHANGED appVars
    /\ UNCHANGED <<config, retryCount, sleepLeft, readers, yielded, outcome, attemptErrs,
                   sleeps, slept>>

\* query(params): params.orgId ?? env, params.kbId ?? env, then request
CallQuery(paramOrg, paramKb, envOrg, envKb) ==
    LET orgId == Coalesce(paramOrg, envOrg)
        kbId == Coalesce(paramKb, envKb)
    IN
    /\ pc = "idle"
    /\ kind' = "query"
    /\ IF ~TruthyStr(orgId) \/ ~TruthyStr(kbId)
       THEN /\ pc' = "done"
            /\ outcome' = Some([tag |-> "throw",
                                error |-> RawError("Error", <<"orgId and kbId are required for query">>)])
            /\ UNCHANGED <<args, options, exchanges, timers, fetchCount, response, lastRaw,
                           flightTime, sent>>
       ELSE /\ args' = QueryOptions(orgId[1], kbId[1], "SELECT 1")
            /\ options' = ContentTypeDefault(args')
            /\ BeginFetch(options')
            /\ outcome' = outcome
    /\ UNCHANGED providerVars
    /\ UNCHANGED streamVars
    /\ UNCHANGED appVars
    /\ UNCHANGED <<config, retryCount, sleepLeft, readers, yielded, attemptErrs, sleeps,
                   slept>>

-----------------------------------------------------------------------------
(* The exchange *)

\* fetch() resolves with a 2xx response inside request: the watchdog is
\* cleared, _fetch returns, request awaits response.json().
FetchOkRequest(resp) ==
    /\ pc = "fetch"
    /\ kind \in {"request", "query"}
    /\ Ok(resp.status)
    /\ InFlight(fetchCount) # {}
    /\ exchanges' = exchanges \ InFlight(fetchCount)
    /\ timers' = ClearTimeout(fetchCount)
    /\ response' = Some(resp)
    /\ pc' = "json"
    /\ UNCHANGED providerVars
    /\ UNCHANGED streamVars
    /\ UNCHANGED appVars
    /\ UNCHANGED sent
    /\ UNCHANGED <<config, kind, args, options, retryCount, sleepLeft, readers, yielded,
                   outcome, fetchCount, attemptErrs, sleeps, slept, flightTime, lastRaw>>

\* if (!response.body) throw new TimbalApiError(...)
\* Mutant of NoBody: the error carries a server-error status.
NoBodyAsServerError(resp) == TimbalApiError(<<"Response body is null">>, 500, "NO_BODY")

NoBody(resp) == TimbalApiError(<<"Response body is null">>, resp.status, "NO_BODY")

\* response.body.getReader(): the body is locked to the reader of attempt k.
getReader(k) == readers \cup {k}

\* Mutant of releaseLock: the lock of the attempt before is released.
releaseLockOfEarlier(k) == readers \ {k - 1}

\* Mutant of releaseLock: the lock is kept.
releaseLockSkipped(k) == readers

\* finally { reader.releaseLock() }
releaseLock(k) == readers \ {k}

\* Mutant of Yield: an empty chunk is not handed to the consumer.
YieldNonEmpty(values, chunk) == IF chunk = <<>> THEN values ELSE Append(values, chunk)

\* yield chunk
Yield(values, chunk) == Append(values, chunk)

\* fetch() resolves with a 2xx response inside stream: without a body NO_BODY
\* is thrown into stream's catch, else the reader is acquired, a new decoder
\* is created and the first read is awaited.
FetchOkStream(resp, body) ==
    /\ pc = "fetch"
    /\ kind = "stream"
    /\ Ok(resp.status)
    /\ InFlight(fetchCount) # {}
    /\ exchanges' = exchanges \ InFlight(fetchCount)
    /\ timers' = ClearTimeout(fetchCount)
    /\ response' = Some(resp)
    /\ IF body # None
       THEN /\ readers' = getReader(fetchCount)
            /\ remaining' = body[1]
            /\ decoder' = <<>>
            /\ reads' = <<>>
            /\ pc' = "read"
            /\ UNCHANGED <<sleepLeft, outcome, attemptErrs, sleeps>>
       ELSE /\ attemptErrs' = Append(attemptErrs, NoBody(resp))
            /\ Catch(NoBody(resp))
            /\ UNCHANGED <<readers, remaining, decoder, reads>>
    /\ UNCHANGED providerVars
    /\ UNCHANGED appVars
    /\ UNCHANGED sent
    /\ UNCHANGED <<config, kind, args, options, retryCount, yielded, fetchCount, slept,
                   flightTime, lastRaw>>

\* fetch() resolves with a non-2xx response: the watchdog is cleared and
\* TimbalApiError.fromResponse(response) is awaited.
FetchNotOk(resp) ==
    /\ pc = "fetch"
    /\ ~Ok(resp.status)
    /\ InFlight(fetchCount) # {}
    /\ exchanges' = exchanges \ InFlight(fetchCount)
    /\ timers' = ClearTimeout(fetchCount)
    /\ response' = Some(resp)
    /\ pc' = "fromResponse"
    /\ UNCHANGED providerVars
    /\ UNCHANGED streamVars
    /\ UNCHANGED appVars
    /\ UNCHANGED sent
    /\ UNCHANGED <<config, kind, args, options, retryCount, sleepLeft, readers, yielded,
                   outcome, fetchCount, attemptErrs, sleeps, slept, flightTime, lastRaw>>

\* fromResponse resolves: its error is thrown inside _fetch's try, passes the
\* catch block of _fetch and reaches the catch of request/stream.
FromResponseDone ==
    /\ pc = "fromResponse"
    /\ FetchThrows(fetchCount, fromResponse(response[1]))
    /\ UNCHANGED providerVars
    /\ UNCHANGED streamVars
    /\ UNCHANGED appVars
    /\ UNCHANGED sent
    /\ UNCHANGED <<config, kind, args, options, retryCount, response, readers, yielded,
                   fetchCount, slept, flightTime>>

\* fetch() rejects.
FetchRejects(error) ==
    /\ pc = "fetch"
    /\ InFlight(fetchCount) # {}
    /\ FetchThrows(fetchCount, error)
    /\ UNCHANGED providerVars
    /\ UNCHANGED streamVars
    /\ UNCHANGED appVars
    /\ UNCHANGED sent
    /\ UNCHANGED <<config, kind, args, options, retryCount, response, readers, yielded,
                   fetchCount, slept, flightTime>>

\* A watchdog fires: controller.abort() rejects the exchange it belongs to
\* with an AbortError, if that exchange is still in flight.
TimerFires(t) ==
    /\ t \in timers
    /\ t.left = 0
    /\ IF InFlight(t.attempt) # {}
       THEN FetchThrows(t.attempt, AbortError)
       ELSE /\ timers' = timers \ {t}
            /\ UNCHANGED <<pc, exchanges, sleepLeft, outcome, attemptErrs, sleeps, lastRaw>>
    /\ UNCHANGED providerVars
    /\ UNCHANGED streamVars
    /\ UNCHANGED appVars
    /\ UNCHANGED sent
    /\ UNCHANGED <<config, kind, args, options, retryCount, response, readers, yielded,
                   fetchCount, slept, flightTime>>

\* Time passes by one unit: no timer that is due is skipped.
Tick ==
    /\ timers # {} \/ sleepLeft # None
    /\ \A t \in timers : t.left > 0
    /\ sleepLeft # None => sleepLeft[1] > 0
    /\ timers' = {[t EXCEPT !.left = @ - 1] : t \in timers}
    /\ sleepLeft' = IF sleepLeft = None THEN None ELSE Some(sleepLeft[1] - 1)
    /\ slept' = IF sleepLeft = None THEN slept ELSE slept + 1
    /\ flightTime' = IF exchanges = {} THEN flightTime ELSE flightTime + 1
    /\ UNCHANGED providerVars
    /\ UNCHANGED streamVars
    /\ UNCHANGED appVars
    /\ UNCHANGED sent
    /\ UNCHANGED <<config, pc, kind, args, options, retryCount, exchanges, response, readers,
                   yielded, outcome, fetchCount, attemptErrs, sleeps, lastRaw>>

-----------------------------------------------------------------------------
(* request: body decoding and retry *)

\* Mutant of Envelope: the status is not taken from the response.
EnvelopeFixedStatus(resp, data) == [data |-> data, success |-> TRUE, statusCode |-> 200]

\* The envelope request returns (lines 124-128).
Envelope(resp, data) == [data |-> data, success |-> TRUE, statusCode |-> resp.status]

\* response.json() resolves: the envelope is returned.
JsonOk ==
    /\ pc = "json"
    /\ outcome' = Some([tag |-> "return", value |-> Envelope(response[1], "data")])
    /\ pc' = "done"
    /\ UNCHANGED providerVars
    /\ UNCHANGED streamVars
    /\ UNCHANGED appVars
    /\ UNCHANGED sent
    /\ UNCHANGED <<config, kind, args, options, retryCount, exchanges, timers, sleepLeft,
                   response, readers, yielded, fetchCount, attemptErrs, sleeps, slept,
                   flightTime, lastRaw>>

\* response.json() rejects: the SyntaxError reaches request's catch.
JsonFails ==
    /\ pc = "json"
    /\ attemptErrs' = Append(attemptErrs, JsonFailure)
    /\ Catch(JsonFailure)
    /\ UNCHANGED providerVars
    /\ UNCHANGED streamVars
    /\ UNCHANGED appVars
    /\ UNCHANGED sent
    /\ UNCHANGED <<config, kind, args, options, retryCount, exchanges, timers, response,
                   readers, yielded, fetchCount, slept, flightTime, lastRaw>>

\* Mutant of SleepResolved: the sleep is not awaited.
SleepNotAwaited == sleepLeft # None

\* await sleep(delay) has resolved.
SleepResolved == sleepLeft = Some(0)

\* sleep() resolves: the recursive call request/stream(endpoint, options,
\* retryCount + 1) runs up to its await of fetch().
SleepDone ==
    /\ pc = "sleep"
    /\ SleepResolved
    /\ sleepLeft' = None
    /\ retryCount' = retryCount + 1
    /\ options' = IF kind = "stream" THEN options ELSE ContentTypeDefault(options)
    /\ BeginFetch(options')
    /\ UNCHANGED providerVars
    /\ UNCHANGED streamVars
    /\ UNCHANGED appVars
    /\ UNCHANGED <<config, kind, args, readers, yielded, outcome, attemptErrs, sleeps, slept>>

-----------------------------------------------------------------------------
(* stream: incremental reads *)

\* reader.read() resolves with the next n bytes of the body: they are decoded
\* and the result is yielded.
ReadChunk(n) ==
    /\ pc = "read"
    /\ n \in 1..Len(remaining)
    /\ reads' = Append(reads, SubSeq(remaining, 1, n))
    /\ remaining' = SubSeq(remaining, n + 1, Len(remaining))
    /\ decoder' = Decode(decoder, SubSeq(remaining, 1, n)).held
    /\ yielded' = Yield(yielded, Decode(decoder, SubSeq(remaining, 1, n)).out)
    /\ pc' = "yield"
    /\ UNCHANGED providerVars
    /\ UNCHANGED appVars
    /\ UNCHANGED sent
    /\ UNCHANGED <<config, kind, args, options, retryCount, exchanges, timers, sleepLeft,
                   response, readers, outcome, fetchCount, attemptErrs, sleeps, slept,
                   flightTime, lastRaw>>

\* The consumer asks for the next value.
ConsumerNext ==
    /\ pc = "yield"
    /\ pc' = "read"
    /\ UNCHANGED providerVars
    /\ UNCHANGED streamVars
    /\ UNCHANGED appVars
    /\ UNCHANGED sent
    /\ UNCHANGED <<config, kind, args, options, retryCount, exchanges, timers, sleepLeft,
                   response, readers, yielded, outcome, fetchCount, attemptErrs, sleeps,
                   slept, flightTime, lastRaw>>

\* The consumer closes the sequence: return() runs the finally block.
ConsumerReturn ==
    /\ pc = "yield"
    /\ readers' = releaseLock(fetchCount)
    /\ pc' = "done"
    /\ outcome' = Some([tag |-> "closed"])
    /\ UNCHANGED providerVars
    /\ UNCHANGED streamVars
    /\ UNCHANGED appVars
    /\ UNCHANGED sent
    /\ UNCHANGED <<config, kind, args, options, retryCount, exchanges, timers, sleepLeft,
                   response, yielded, fetchCount, attemptErrs, sleeps, slept, flightTime,
                   lastRaw>>

\* reader.read() reports the end of the body: break, finally, return.
ReadDone ==
    /\ pc = "read"
    /\ remaining = <<>>
    /\ readers' = releaseLock(fetchCount)
    /\ pc' = "done"
    /\ outcome' = Some([tag |-> "return", value |-> [yielded |-> yielded]])
    /\ UNCHANGED providerVars
    /\ UNCHANGED streamVars
    /\ UNCHANGED appVars
    /\ UNCHANGED sent
    /\ UNCHANGED <<config, kind, args, options, retryCount, exchanges, timers, sleepLeft,
                   response, yielded, fetchCount, attemptErrs, sleeps, slept, flightTime,
                   lastRaw>>

\* reader.read() rejects: finally releases the reader, the error reaches
\* stream's catch.
ReadFails ==
    /\ pc = "read"
    /\ readers' = releaseLock(fetchCount)
    /\ attemptErrs' = Append(attemptErrs, ReadFailure)
    /\ Catch(ReadFailure)
    /\ UNCHANGED providerVars
    /\ UNCHANGED streamVars
    /\ UNCHANGED appVars
    /\ UNCHANGED sent
    /\ UNCHANGED <<config, kind, args, options, retryCount, exchanges, timers, response,
                   yielded, fetchCount, slept, flightTime, lastRaw>>

-----------------------------------------------------------------------------
(* Token Sync *)

\* updateSessionToken(token): the live sessionToken is replaced in place.
updateSessionToken(token) ==
    /\ token # config.sessionToken
    /\ config' = [config EXCEPT !.sessionToken = token]
    /\ UNCHANGED providerVars
    /\ UNCHANGED streamVars
    /\ UNCHANGED appVars
    /\ UNCHANGED sent
    /\ UNCHANGED <<pc, kind, args, options, retryCount, exchanges, timers, sleepLeft,
                   response, readers, yielded, outcome, fetchCount, attemptErrs, sleeps,
                   slept, flightTime, lastRaw>>

-----------------------------------------------------------------------------

Next ==
    \/ \E opts \in RequestOptions : CallRequest(opts)
    \/ \E opts \in RequestOptions : CallStream(opts)
    \/ \E po \in OrgIds, pk \in KbIds : CallQuery(po, pk, None, None)
    \/ \E resp \in Responses : FetchOkRequest(resp)
    \/ \E resp \in Responses, body \in {None, Some(SampleBody)} : FetchOkStream(resp, body)
    \/ \E resp \in Responses : FetchNotOk(resp)
    \/ FromResponseDone
    \/ \E e \in FetchFailures : FetchRejects(e)
    \/ \E t \in timers : TimerFires(t)
    \/ Tick
    \/ JsonOk
    \/ JsonFails
    \/ SleepDone
    \/ \E n \in 1..Len(remaining) : ReadChunk(n)
    \/ ConsumerNext
    \/ ConsumerReturn
    \/ ReadDone
    \/ ReadFails

\* One call on a client whose session token stays as constructed.
Spec == Init /\ [][Next]_vars

\* The same, with the identity provider pushing tokens at any moment.
NextSync ==
    \/ Next
    \/ \E tok \in Tokens : updateSessionToken(tok)

SpecSync == InitSync /\ [][NextSync]_vars

-----------------------------------------------------------------------------
(* buildHeaders and buildUrl over their inputs *)

\* Default headers of a client: none, one, one name in two spellings, a
\* session header, a content type.
HeaderDefaults ==
    { <<>>,
      <<<<"X-Client", "blueprint">>>>,
      <<<<"X-Client", "a">>, <<"X-CLIENT", "b">>>>,
      <<<<"x-auth-token", "dflt">>>>,
      <<<<"Content-Type", "text/plain">>>> }

\* Clients for the header properties: one retry, so that a second attempt
\* rebuilds the headers.
HeaderConfigs ==
    [apiKey : ApiKeys, baseUrl : {BaseUrl}, sessionToken : {None, Some("tok1")},
     timeout : {None}, retryAttempts : {Some(1)}, retryDelay : {Some(1)},
     defaultHeaders : HeaderDefaults]

\* Per-call headers as the entries of a plain record.
HeaderRecords ==
    { <<>>,
      <<<<"X-Client", "call">>>>,
      <<<<"X-Client", "a">>, <<"X-CLIENT", "b">>>>,
      <<<<"Authorization", "Bearer other">>>>,
      <<<<"x-auth-token", "calltok">>>>,
      <<<<"Content-Type", "text/plain">>>>,
      <<<<"content-type", "text/plain">>>>,
      <<<<"CONTENT-TYPE", "text/plain">>>> }

\* options.headers: absent, a record, or a Headers instance.
PerCallHeaders ==
    {NoHeaders} \cup {Rec(r) : r \in HeaderRecords}
        \cup {Hdr(HeadersFrom(EmptyHeaders, r)) : r \in HeaderRecords}

HeaderOptions ==
    [endpoint : {<<"/", "items">>}, method : {"POST"}, body : {None, JsonBody},
     headers : PerCallHeaders]

InitHeaders == Constructed(HeaderConfigs) /\ Detached

Unavailable == [status |-> 503, body |-> None]

NextHeaders ==
    \/ \E opts \in HeaderOptions : CallRequest(opts)
    \/ \E opts \in HeaderOptions : CallStream(opts)
    \/ FetchNotOk(Unavailable)
    \/ FromResponseDone
    \/ Tick
    \/ SleepDone

\* buildHeaders applied to every client and every per-call options, on a
\* first attempt and on a retry.
SpecHeaders == InitHeaders /\ [][NextHeaders]_vars

\* Clients for buildUrl: every non-empty base URL.
UrlConfigs ==
    [apiKey : {None}, baseUrl : Strings(1, MaxUrlLen), sessionToken : {Some("tok1")},
     timeout : {None}, retryAttempts : {None}, retryDelay : {None},
     defaultHeaders : DefaultHeaderChoices]

UrlOptions ==
    [endpoint : Strings(0, MaxUrlLen), method : {"GET"}, body : {None},
     headers : {NoHeaders}]

InitUrl == Constructed(UrlConfigs) /\ Detached

NextUrl ==
    \/ \E opts \in UrlOptions : CallRequest(opts)
    \/ \E opts \in UrlOptions : CallStream(opts)

\* buildUrl applied to every base URL and every endpoint.
SpecUrl == InitUrl /\ [][NextUrl]_vars

-----------------------------------------------------------------------------
(* The identity provider: SessionProvider and TimbalProvider *)

\* The sessions the identity provider delivers: null, or one with a token.
Sessions == {None} \cup {Some([access_token |-> t]) : t \in {"tok1", "tok2"}}

\* Mutant of AccessToken: a null session leaves the token in place.
AccessTokenKeptOnSignOut(sess) ==
    IF sess = None THEN config.sessionToken ELSE Some(sess[1].access_token)

\* session?.access_token
AccessToken(sess) == IF sess = None THEN None ELSE Some(sess[1].access_token)

\* The body both callbacks share: setSession(session), then the token is
\* handed to an import().then(...) callback. A session object is a new
\* object on every delivery (id), null is null.
Deliver(via, sess) ==
    /\ session' = IF sess = None THEN None
                  ELSE Some([id |-> Len(delivered) + 1, access_token |-> sess[1].access_token])
    /\ pushes' = Append(pushes, AccessToken(sess))
    /\ delivered' = Append(delivered, [via |-> via, session |-> sess])

\* getSession() resolves (lines 90-97).
GetSessionResolves(sess) ==
    /\ getSessionPending
    /\ getSessionPending' = FALSE
    /\ Deliver("getSession", sess)
    /\ UNCHANGED <<applied, ctxClient>>
    /\ UNCHANGED streamVars
    /\ loading' = FALSE
    /\ UNCHANGED <<authConfig, guard>>
    /\ UNCHANGED sent
    /\ UNCHANGED <<config, pc, kind, args, options, retryCount, exchanges, timers, sleepLeft,
                   response, readers, yielded, outcome, fetchCount, attemptErrs, sleeps,
                   slept, flightTime, lastRaw>>

\* The listener of onAuthStateChange is called (lines 102-109).
AuthStateChange(sess) ==
    /\ Len(delivered) < MaxDeliveries
    /\ Deliver("onAuthStateChange", sess)
    /\ UNCHANGED <<getSessionPending, applied, ctxClient>>
    /\ UNCHANGED streamVars
    /\ loading' = FALSE
    /\ UNCHANGED <<authConfig, guard>>
    /\ UNCHANGED sent
    /\ UNCHANGED <<config, pc, kind, args, options, retryCount, exchanges, timers, sleepLeft,
                   response, readers, yielded, outcome, fetchCount, attemptErrs, sleeps,
                   slept, flightTime, lastRaw>>

\* The oldest import("@/timbal/client") promise still pending resolves: its
\* callback pushes the token it closed over to the exported client.
ImportResolved ==
    /\ applied < Len(pushes)
    /\ applied' = applied + 1
    /\ config' = [config EXCEPT !.sessionToken = pushes[applied + 1]]
    /\ UNCHANGED <<session, getSessionPending, pushes, ctxClient, delivered>>
    /\ UNCHANGED streamVars
    /\ UNCHANGED appVars
    /\ UNCHANGED sent
    /\ UNCHANGED <<pc, kind, args, options, retryCount, exchanges, timers, sleepLeft,
                   response, readers, yielded, outcome, fetchCount, attemptErrs, sleeps,
                   slept, flightTime, lastRaw>>

\* TimbalProvider renders again after setSession: useMemo finds `session`
\* changed and builds a new client (timbal/provider.tsx, lines 18-25).
Render ==
    /\ ctxClient.dep # session
    /\ ctxClient' = [instance |-> ctxClient.instance + 1,
                     sessionToken |-> IF session = None THEN None
                                      ELSE Some(session[1].access_token),
                     dep |-> session]
    /\ UNCHANGED <<session, getSessionPending, pushes, applied, delivered>>
    /\ UNCHANGED streamVars
    /\ UNCHANGED appVars
    /\ UNCHANGED sent
    /\ UNCHANGED <<config, pc, kind, args, options, retryCount, exchanges, timers, sleepLeft,
                   response, readers, yielded, outcome, fetchCount, attemptErrs, sleeps,
                   slept, flightTime, lastRaw>>

\* The exported client, constructed without apiKey and without token.
ProviderConfigs ==
    [apiKey : {None}, baseUrl : {BaseUrl}, sessionToken : {None},
     timeout : {None}, retryAttempts : {None}, retryDelay : {None},
     defaultHeaders : DefaultHeaderChoices]

InitProvider == Constructed(ProviderConfigs) /\ Mounted

NextProvider ==
    \/ \E sess \in Sessions : GetSessionResolves(sess)
    \/ \E sess \in Sessions : AuthStateChange(sess)
    \/ ImportResolved
    \/ Render

\* The providers delivering sessions to the exported client and to the
\* client of the React context.
SpecProvider == InitProvider /\ [][NextProvider]_vars

\* Clients for the properties of query: with and without one retry.
QueryConfigs ==
    [apiKey : {None}, baseUrl : {BaseUrl}, sessionToken : {Some("tok1")},
     timeout : {None, Some(1)}, retryAttempts : {None, Some(1)}, retryDelay : RetryDelays,
     defaultHeaders : DefaultHeaderChoices]

InitQuery == Constructed(QueryConfigs) /\ Detached

NextQuery ==
    \/ \E po \in OrgIds, pk \in KbIds, eo \in EnvOrgIds, ek \in EnvKbIds :
           CallQuery(po, pk, eo, ek)
    \/ \E resp \in Responses : FetchOkRequest(resp)
    \/ \E resp \in Responses : FetchNotOk(resp)
    \/ FromResponseDone
    \/ \E e \in FetchFailures : FetchRejects(e)
    \/ \E t \in timers : TimerFires(t)
    \/ Tick
    \/ JsonOk
    \/ JsonFails
    \/ SleepDone

\* One call of query, with its identifiers passed, defaulted or missing.
SpecQuery == InitQuery /\ [][NextQuery]_vars

\* The steps of one call of request.
NextRequest ==
    \/ \E opts \in RequestOptions : CallRequest(opts)
    \/ \E resp \in Responses : FetchOkRequest(resp)
    \/ \E resp \in Responses : FetchNotOk(resp)
    \/ FromResponseDone
    \/ \E e \in FetchFailures : FetchRejects(e)
    \/ \E t \in timers : TimerFires(t)
    \/ Tick
    \/ JsonOk
    \/ JsonFails
    \/ SleepDone

\* What the environment of a call owes it: the exchange in flight ends (with
\* a response, a rejection or the watchdog's abort), the body of an error or
\* of a success is decoded or fails to decode, time passes and a delay that
\* has passed resolves.
Completes ==
    \/ \E resp \in Responses : FetchOkRequest(resp)
    \/ \E resp \in Responses : FetchNotOk(resp)
    \/ FromResponseDone
    \/ \E e \in FetchFailures : FetchRejects(e)
    \/ \E t \in timers : TimerFires(t)
    \/ Tick
    \/ JsonOk
    \/ JsonFails
    \/ SleepDone

\* One call of request whose exchanges, body decodes and delays all
\* complete.
SpecRequestLive == Init /\ [][NextRequest]_vars /\ WF_vars(Completes)

\* import.meta.env.VITE_APP_ENABLE_AUTH: unset or set.
EnableAuthValues == {None, Some("true"), Some("false")}

\* Mutant of AuthGuard: the loading state is not looked at.
AuthGuardNoSpinner(enableAuth, ctx, requireAuth) ==
    IF enableAuth # Some("true") THEN "children"
    ELSE IF requireAuth /\ ctx.session = None THEN "/auth/login"
    ELSE IF ~requireAuth /\ ctx.session # None THEN "/"
    ELSE "children"

\* What AuthGuard returns for the context value ctx: its children, the
\* spinner, or a Navigate to a path.
AuthGuard(enableAuth, ctx, requireAuth) ==
    IF enableAuth # Some("true") THEN "children"
    ELSE IF ctx.loading THEN "spinner"
    ELSE IF requireAuth /\ ctx.session = None THEN "/auth/login"
    ELSE IF ~requireAuth /\ ctx.session # None THEN "/"
    ELSE "children"

\* The value of SessionContext.Provider.
ContextValue == [session |-> session, loading |-> loading]

\* A guard rendered with the context value ctx.
Rendered(enableAuth, ctx, requireAuth) ==
    Some([enableAuth |-> enableAuth, requireAuth |-> requireAuth, seen |-> ctx,
          view |-> AuthGuard(enableAuth, ctx, requireAuth)])

\* The callbacks of the SessionProvider of SessionContext.tsx: setSession and
\* setLoading(false), in one batch.
ContextDeliver(via, sess) ==
    /\ session' = IF sess = None THEN None
                  ELSE Some([id |-> Len(delivered) + 1, access_token |-> sess[1].access_token])
    /\ loading' = FALSE
    /\ delivered' = Append(delivered, [via |-> via, session |-> sess])
    /\ UNCHANGED <<pushes, applied, ctxClient, authConfig, guard>>
    /\ UNCHANGED streamVars
    /\ UNCHANGED sent
    /\ UNCHANGED <<config, pc, kind, args, options, retryCount, exchanges, timers, sleepLeft,
                   response, readers, yielded, outcome, fetchCount, attemptErrs, sleeps,
                   slept, flightTime, lastRaw>>

\* authClient.auth.getSession() resolves.
ContextGetSessionResolves(sess) ==
    /\ getSessionPending
    /\ getSessionPending' = FALSE
    /\ ContextDeliver("getSession", sess)

\* The listener of onAuthStateChange is called.
ContextAuthStateChange(sess) ==
    /\ Len(delivered) < MaxDeliveries
    /\ ContextDeliver("onAuthStateChange", sess)
    /\ UNCHANGED getSessionPending

\* React renders the guard again after the context value has changed.
GuardRender ==
    /\ guard # None
    /\ guard[1].seen # ContextValue
    /\ guard' = Rendered(guard[1].enableAuth, ContextValue, guard[1].requireAuth)
    /\ UNCHANGED <<authConfig, loading>>
    /\ UNCHANGED providerVars
    /\ UNCHANGED streamVars
    /\ UNCHANGED sent
    /\ UNCHANGED <<config, pc, kind, args, options, retryCount, exchanges, timers, sleepLeft,
                   response, readers, yielded, outcome, fetchCount, attemptErrs, sleeps,
                   slept, flightTime, lastRaw>>

\* A route's guard has rendered for the first time under a SessionProvider
\* whose effect has run.
InitGuard ==
    /\ Constructed(ProviderConfigs)
    /\ session = None
    /\ pushes = <<>>
    /\ applied = 0
    /\ ctxClient = [instance |-> 1, sessionToken |-> None, dep |-> None]
    /\ delivered = <<>>
    /\ loading = TRUE
    /\ getSessionPending = TRUE
    /\ guard \in {Rendered(e, [session |-> None, loading |-> TRUE], r) :
                      e \in EnableAuthValues, r \in BOOLEAN}

NextGuard ==
    \/ \E sess \in Sessions : ContextGetSessionResolves(sess)
    \/ \E sess \in Sessions : ContextAuthStateChange(sess)
    \/ GuardRender

\* A guarded route under the session context, through the initial load and
\* the changes of the auth state.
SpecGuard == InitGuard /\ [][NextGuard]_vars

\* No client exists yet: the build's IAM flag is any of its values.
InitConstruct ==
    /\ config = None
    /\ authConfig \in {[timbalIAM |-> timbalIAM(v)] : v \in IamEnvValues}
    /\ pc = "new"
    /\ NoCall
    /\ Detached

NextConstruct ==
    \/ \E cfg \in ConfigArgs, envKey \in EnvApiKeys, envBase \in EnvBaseUrls :
           Construct(cfg, envKey, envBase)
    \/ \E opts \in RequestOptions : CallRequest(opts)
    \/ \E resp \in Responses : FetchOkRequest(resp)
    \/ JsonOk

\* The construction of a client from every argument and environment, and a
\* first successful request on it.
SpecConstruct == InitConstruct /\ [][NextConstruct]_vars

\* A client that does not retry, for the properties of one stream attempt.
StreamConfigs ==
    [apiKey : {None}, baseUrl : {BaseUrl}, sessionToken : {Some("tok1")},
     timeout : {None}, retryAttempts : {None}, retryDelay : {None},
     defaultHeaders : DefaultHeaderChoices]

InitStream == Constructed(StreamConfigs) /\ Detached

NextStream ==
    \/ \E opts \in RequestOptions : CallStream(opts)
    \/ \E resp \in Responses, body \in {None} \cup {Some(b) : b \in Bodies} :
           FetchOkStream(resp, body)
    \/ \E n \in 1..Len(remaining) : ReadChunk(n)
    \/ ConsumerNext
    \/ ConsumerReturn
    \/ ReadDone
    \/ ReadFails

\* One stream call over every well-formed body of at most MaxBody bytes,
\* split into reads in every way.
SpecStream == InitStream /\ [][NextStream]_vars

-----------------------------------------------------------------------------
(* Vocabulary of the properties *)

IsApiError(e) == e.cls = "TimbalApiError"
Is2xx(status) == status \in 200..299
IsRequest == kind \in {"request", "query"}
Threw == outcome # None /\ outcome[1].tag = "throw"
Returned == outcome # None /\ outcome[1].tag = "return"

\* 1 + 2 + ... + n
SumTo(n) == (n * (n + 1)) \div 2

RECURSIVE SumSeq(_)
SumSeq(seq) == IF seq = <<>> THEN 0 ELSE Head(seq) + SumSeq(Tail(seq))

\* sub occurs in seq as a contiguous run
ContainsSeq(seq, sub) ==
    \E i \in 0..(Len(seq) - Len(sub)) : SubSeq(seq, i + 1, i + Len(sub)) = sub

\* The retry budget: retryAttempts, and none when it is not configured.
Budget == IF config.retryAttempts = None THEN 0 ELSE config.retryAttempts[1]

\* Every exchange issued so far has ended in a failed attempt.
AllAttemptsFailed == fetchCount >= 1 /\ Len(attemptErrs) = fetchCount

\* Every exchange issued so far was answered with this status.
AllAnswered(status) ==
    /\ AllAttemptsFailed
    /\ \A i \in 1..Len(attemptErrs) :
         IsApiError(attemptErrs[i]) /\ attemptErrs[i].statusCode = status

-----------------------------------------------------------------------------
(* Properties of the retrying request *)

\* C1: with retryAttempts = N configured, a request whose every exchange is
\* answered 503 is retried until N+1 exchanges have been issued, and then
\* fails with an error of statusCode 503: never more exchanges, and no end
\* before the last one.
C1_AlwaysFailing503 ==
    (IsRequest /\ config.retryAttempts # None /\ AllAnswered(503)) =>
        /\ fetchCount <= Budget + 1
        /\ fetchCount < Budget + 1 => pc = "sleep" /\ outcome = None
        /\ fetchCount = Budget + 1 =>
             /\ pc = "done"
             /\ Threw
             /\ IsApiError(outcome[1].error)
             /\ outcome[1].error.statusCode = 503

C1_Witness ==
    /\ kind = "request"
    /\ config.retryAttempts = Some(MaxRetry)
    /\ AllAnswered(503)
    /\ fetchCount = MaxRetry + 1
    /\ pc = "done"

\* C2, as claimed: a request whose first exchange is answered with a non-2xx
\* status below 500 issues that one exchange only, sleeps for no backoff and
\* fails with an error carrying that status.
C2_Below500NeverRetried ==
    (/\ IsRequest
     /\ Len(attemptErrs) >= 1
     /\ IsApiError(attemptErrs[1])
     /\ attemptErrs[1].statusCode \in Statuses
     /\ ~Is2xx(attemptErrs[1].statusCode)
     /\ attemptErrs[1].statusCode < 500) =>
        /\ fetchCount = 1
        /\ sleeps = <<>>
        /\ pc = "done"
        /\ Threw
        /\ outcome[1].error.statusCode = attemptErrs[1].statusCode

\* The error classes the retry policy names.
RetryableClass(e) ==
    /\ IsApiError(e)
    /\ e.code = "TIMEOUT_ERROR" \/ e.code = "NETWORK_ERROR" \/ e.statusCode >= 500

\* Every attempt so far ended in a timeout or a network failure.
AllTransient ==
    /\ AllAttemptsFailed
    /\ \A i \in 1..Len(attemptErrs) :
         /\ IsApiError(attemptErrs[i])
         /\ attemptErrs[i].code \in {"TIMEOUT_ERROR", "NETWORK_ERROR"}

\* C3: in request the i-th failed attempt is followed by a retry exactly when
\* its error is TIMEOUT_ERROR, NETWORK_ERROR or has statusCode >= 500 and the
\* i-1 retries made so far are fewer than retryAttempts; an attempt is only
\* ever started by such a retry, so a call issues at most retryAttempts + 1
\* exchanges, and exactly that many when every attempt times out or fails at
\* the network level.
C3_RetryIff ==
    IsRequest =>
        /\ \A i \in 1..Len(attemptErrs) :
             (Len(sleeps) >= i) <=>
                 /\ RetryableClass(attemptErrs[i])
                 /\ config.retryAttempts # None
                 /\ i - 1 < config.retryAttempts[1]
        /\ fetchCount >= 1 => fetchCount \in {Len(sleeps), Len(sleeps) + 1}
        /\ fetchCount <= Budget + 1
        /\ (pc = "done" /\ AllTransient) => fetchCount = Budget + 1

C3_Witness ==
    /\ kind = "request"
    /\ pc = "done"
    /\ AllTransient
    /\ fetchCount = MaxRetry + 1
    /\ \E i, j \in 1..Len(attemptErrs) :
         /\ attemptErrs[i].code = "TIMEOUT_ERROR"
         /\ attemptErrs[j].code = "NETWORK_ERROR"

\* C4: in request the delay passed to sleep before the k-th retry is
\* retryDelay * k; the exchange of the k-th retry is in flight only once the
\* delays of retries 1..k have passed in full; a call that ends after using
\* all N retries has slept retryDelay * N * (N + 1) / 2 in total.
C4_LinearBackoff ==
    (IsRequest /\ config.retryDelay # None) =>
        LET d == config.retryDelay[1] IN
        /\ \A k \in 1..Len(sleeps) : sleeps[k] = d * k
        /\ fetchCount >= 1 => slept >= d * SumTo(fetchCount - 1)
        /\ exchanges # {} => slept = d * SumTo(fetchCount - 1)
        /\ (pc = "done" /\ config.retryAttempts # None /\ fetchCount = Budget + 1) =>
               slept = d * SumTo(Budget)

C4_Witness ==
    /\ kind = "request"
    /\ config.retryDelay = Some(MaxDelay)
    /\ config.retryAttempts = Some(MaxRetry)
    /\ pc = "done"
    /\ fetchCount = MaxRetry + 1
    /\ slept = MaxDelay * SumTo(MaxRetry)

\* C5: when request gives up, the error the caller gets is the very error
\* that ended the last attempt made: same class, statusCode, code and message.
C5_LastErrorUnchanged ==
    (IsRequest /\ pc = "done" /\ Threw /\ fetchCount >= 1) =>
        /\ Len(attemptErrs) = fetchCount
        /\ outcome[1].error = attemptErrs[fetchCount]

\* The call gave up after a retry, and its first and last attempt failed with
\* different error classes.
C5_Witness ==
    /\ kind = "request"
    /\ pc = "done"
    /\ Threw
    /\ fetchCount >= 2
    /\ Len(attemptErrs) = fetchCount
    /\ IsApiError(attemptErrs[fetchCount])
    /\ attemptErrs[1].code = "NETWORK_ERROR"
    /\ attemptErrs[fetchCount].statusCode = 503

\* C6: the attempts of one call of request or stream are sequential: at most
\* one exchange is in flight, it belongs to the latest attempt, every earlier
\* attempt has failed, and every backoff delay started so far has passed in
\* full.
C6_Sequential ==
    /\ Cardinality(exchanges) <= 1
    /\ \A e \in exchanges :
         /\ e.attempt = fetchCount
         /\ Len(attemptErrs) = fetchCount - 1
         /\ Len(sleeps) = fetchCount - 1
         /\ sleepLeft = None
         /\ slept = SumSeq(sleeps)

C6_Witness ==
    /\ kind = "stream"
    /\ exchanges # {}
    /\ fetchCount = MaxRetry + 1
    /\ slept > 0

\* C7: request returns an envelope only when its latest attempt received a
\* 2xx response and did not fail; the envelope has success = true and the
\* status of that response.
C7_EnvelopeOnly2xx ==
    (IsRequest /\ Returned) =>
        /\ response # None
        /\ Is2xx(response[1].status)
        /\ Len(attemptErrs) = fetchCount - 1
        /\ outcome[1].value.success
        /\ outcome[1].value.statusCode = response[1].status

\* An envelope for a 204 after an earlier attempt failed.
C7_Witness ==
    /\ kind = "request"
    /\ Returned
    /\ Len(attemptErrs) >= 1
    /\ response # None
    /\ response[1].status = 204

\* C8, as claimed, for a call that has issued an exchange: whatever request,
\* stream or query then throws to its caller is a TimbalApiError (a typed
\* error with statusCode and code), also after a 2xx response whose body is
\* not JSON and after a failed body read.
C8_EveryFailureTyped ==
    (Threw /\ fetchCount >= 1) => IsApiError(outcome[1].error)

-----------------------------------------------------------------------------
(* Properties of the transport *)

\* _fetch has returned a response to request or stream.
FetchReturned == pc \in {"json", "read", "yield"} \/ Returned

\* C9: _fetch returns a response only when its status is 2xx; a response with
\* any other status ends the attempt with a TimbalApiError whose statusCode
\* is that status.
C9_FetchReturnsOnly2xx ==
    /\ FetchReturned => response # None /\ Is2xx(response[1].status)
    /\ (response # None /\ ~Is2xx(response[1].status) /\ pc # "fromResponse") =>
           /\ Len(attemptErrs) = fetchCount
           /\ IsApiError(attemptErrs[fetchCount])
           /\ attemptErrs[fetchCount].statusCode = response[1].status

C9_Witness ==
    /\ response # None
    /\ response[1].status = 304
    /\ pc = "done"
    /\ Threw

\* C10: whatever fetch() rejects with ends the attempt with exactly one
\* TimbalApiError of statusCode 0: the abort of the watchdog gives
\* TIMEOUT_ERROR, a TypeError gives NETWORK_ERROR, anything else gives
\* SERVER_ERROR with the text of the failure in its message.
C10_TransportFailureClassified ==
    (lastRaw # None /\ ~IsApiError(lastRaw[1])) =>
        /\ Len(attemptErrs) = fetchCount
        /\ LET raw == lastRaw[1]
               e == attemptErrs[fetchCount]
           IN  /\ IsApiError(e)
               /\ e.statusCode = 0
               /\ raw.cls = "AbortError" => e.code = "TIMEOUT_ERROR"
               /\ raw.cls = "TypeError" => e.code = "NETWORK_ERROR"
               /\ raw.cls \notin {"AbortError", "TypeError"} =>
                      /\ e.code = "SERVER_ERROR"
                      /\ ContainsSeq(e.message, raw.message)

\* One call saw a timeout, then a network failure, then an unknown failure.
C10_Witness ==
    /\ Len(attemptErrs) = 3
    /\ attemptErrs[1].code = "TIMEOUT_ERROR"
    /\ attemptErrs[2].code = "NETWORK_ERROR"
    /\ attemptErrs[3].code = "SERVER_ERROR"
    /\ lastRaw = Some(RawError("Error", <<"boom">>))

-----------------------------------------------------------------------------
(* Properties of the exchange and its watchdog *)

TransportCodes == {"TIMEOUT_ERROR", "NETWORK_ERROR", "SERVER_ERROR"}

\* C11: the ApiError that fromResponse produces for a non-2xx response is the
\* error the attempt ends with: the same error, its statusCode the status of
\* the response and its code unchanged, never a statusCode 0 error of the
\* TIMEOUT_ERROR / NETWORK_ERROR / SERVER_ERROR classes.
C11_ApiErrorKept ==
    (lastRaw # None /\ IsApiError(lastRaw[1])) =>
        /\ response # None /\ ~Is2xx(response[1].status)
        /\ Len(attemptErrs) = fetchCount
        /\ attemptErrs[fetchCount] = lastRaw[1]
        /\ attemptErrs[fetchCount].statusCode = response[1].status
        /\ attemptErrs[fetchCount].code = fromResponse(response[1]).code
        /\ ~(attemptErrs[fetchCount].statusCode = 0
                /\ attemptErrs[fetchCount].code \in TransportCodes)

\* A 503 answer has left the exchange and reached the caller as itself.
C11_Witness ==
    /\ lastRaw # None /\ IsApiError(lastRaw[1])
    /\ response # None /\ response[1].status = 503
    /\ Threw /\ outcome[1].error = lastRaw[1]
    /\ outcome[1].error.statusCode = 503

\* C12: a watchdog is pending only for an exchange that is still in flight,
\* none is ever pending when no timeout is configured, and with a timeout
\* configured every exchange in flight has its watchdog.
C12_WatchdogsOnlyInFlight ==
    /\ \A t \in timers : InFlight(t.attempt) # {}
    /\ ~TruthyNum(config.timeout) => timers = {}
    /\ TruthyNum(config.timeout) =>
          \A e \in exchanges : \E t \in timers : t.attempt = e.attempt

\* With a timeout configured, a first attempt has ended with a transport
\* error and a second with a 2xx response, and no watchdog is pending.
C12_Witness ==
    /\ TruthyNum(config.timeout)
    /\ fetchCount = 2
    /\ attemptErrs # <<>> /\ attemptErrs[1].code = "NETWORK_ERROR"
    /\ response # None /\ Is2xx(response[1].status)
    /\ exchanges = {} /\ timers = {}

\* C13: the only watchdog ever pending is the one of the latest attempt, it
\* has run for exactly the time this attempt has been in flight out of the
\* full configured timeout, and an attempt is aborted only once the full
\* timeout has passed within that attempt.
C13_TimeoutPerAttempt ==
    /\ \A t \in timers :
          /\ t.attempt = fetchCount
          /\ t.left = config.timeout[1] - flightTime
    /\ lastRaw = Some(AbortError) => flightTime = config.timeout[1]

\* Two attempts in a row have each run into their own watchdog.
C13_Witness ==
    /\ fetchCount >= 2
    /\ lastRaw = Some(AbortError)
    /\ flightTime = config.timeout[1]
    /\ attemptErrs[1].code = "TIMEOUT_ERROR" /\ attemptErrs[1].statusCode = 0

-----------------------------------------------------------------------------
(* Properties of buildHeaders *)

AuthNames == {"authorization", "x-auth-token"}

\* The header names an object or per-call headers value mentions.
Names(obj) == {Lower(obj[i][1]) : i \in 1..Len(obj)}
PerCallNames(hd) ==
    CASE hd.rep = "none" -> {}
      [] hd.rep = "record" -> Names(hd.entries)
      [] hd.rep = "Headers" -> DOMAIN hd.map

\* The value written last under a name, names compared case-insensitively.
LastValue(obj, n) ==
    LET i == CHOOSE j \in 1..Len(obj) :
                 /\ Lower(obj[j][1]) = n
                 /\ \A k \in (j + 1)..Len(obj) : Lower(obj[k][1]) # n
    IN  obj[i][2]
PerCallValue(hd, n) == IF hd.rep = "record" THEN LastValue(hd.entries, n) ELSE hd.map[n]

\* The names the caller supplies, through the defaults or the per-call options.
Supplied(hd) == Names(config.defaultHeaders) \cup PerCallNames(hd)

\* The header the configured credentials call for, and its value.
CredentialName ==
    IF TruthyStr(config.apiKey) THEN {"authorization"}
    ELSE IF TruthyStr(config.sessionToken) THEN {"x-auth-token"}
    ELSE {}
CredentialValue ==
    IF TruthyStr(config.apiKey) THEN "Bearer " \o config.apiKey[1]
    ELSE config.sessionToken[1]

Has(h, n) == n \in DOMAIN h

C15_AtMostOneAuthShape ==
    \A x \in exchanges :
        /\ ~(Has(x.headers, "authorization") /\ Has(x.headers, "x-auth-token"))
        /\ (~TruthyStr(config.apiKey) /\ ~TruthyStr(config.sessionToken)) =>
              AuthNames \cap DOMAIN x.headers = {}

\* C15 amended: the authorization headers of an exchange are exactly the one
\* the credentials call for (at most one: Authorization with an apiKey, else
\* x-auth-token with a sessionToken, else none) together with those the
\* caller supplies in the default headers or the per-call options.
C15_AuthShapesAccounted ==
    \A x \in exchanges :
        /\ Cardinality(CredentialName) <= 1
        /\ AuthNames \cap DOMAIN x.headers =
              CredentialName \cup (AuthNames \cap Supplied(args.headers))

\* A client with an apiKey whose default headers hold a session header: the
\* exchange carries the Bearer header the credentials call for and the
\* session header the caller supplied.
C15_Witness ==
    /\ TruthyStr(config.apiKey)
    /\ "x-auth-token" \in Names(config.defaultHeaders)
    /\ \E x \in exchanges :
          /\ x.headers["authorization"] = "Bearer key"
          /\ x.headers["x-auth-token"] = "dflt"

\* C16: the headers of an exchange are the three layers in the order defaults,
\* authorization, per-call, a later write winning per case-insensitive name:
\* a name of the per-call options has the per-call value, any other name the
\* value of the authorization step or, failing that, of the defaults. (Stated
\* for the calls whose options reach buildHeaders as the caller passed them.)
C16_LaterWriteWins ==
    \A x \in exchanges : (options = args) =>
        /\ DOMAIN x.headers = Supplied(options.headers) \cup CredentialName
        /\ \A n \in DOMAIN x.headers :
              x.headers[n] =
                  IF n \in PerCallNames(options.headers)
                  THEN PerCallValue(options.headers, n)
                  ELSE IF n \in CredentialName THEN CredentialValue
                  ELSE LastValue(config.defaultHeaders, n)

\* C17: an exchange of a request with a string body carries the caller's
\* content type, alone, when the caller's options name one under any letter
\* case and in either representation, and application/json otherwise.
C17_ContentType ==
    \A x \in exchanges :
        (kind = "request" /\ args.body # None /\ args.body[1].isString
            /\ args.body[1].text # "") =>
            /\ Has(x.headers, "content-type")
            /\ x.headers["content-type"] =
                  IF "content-type" \in PerCallNames(args.headers)
                  THEN PerCallValue(args.headers, "content-type")
                  ELSE "application/json"

-----------------------------------------------------------------------------
(* Properties of buildUrl *)

Slash == <<"/">>

\* The last n pieces of str.
Suffix(str, n) == SubSeq(str, Len(str) - n + 1, Len(str))

\* C18: for a base b without trailing slash and an endpoint e without leading
\* slash, the URL of an exchange is b + "/" + e whether the client's base is b
\* or b + "/" and whether the endpoint passed is e or "/" + e. Nothing else is
\* normalized: a base ending in two slashes loses only the last one, and an
\* endpoint starting with a slash is appended unchanged.
C18_UrlJoin ==
    \A x \in exchanges :
        /\ \A b, e \in Strings(0, MaxUrlLen) :
              (/\ ~endsWith(b, "/") /\ ~startsWith(e, "/")
               /\ config.baseUrl \in {b, b \o Slash}
               /\ args.endpoint \in {e, Slash \o e})
                  => x.url = b \o Slash \o e
        /\ endsWith(config.baseUrl, "/") =>
              /\ SubSeq(x.url, 1, Len(config.baseUrl) - 1) = DropLast(config.baseUrl)
              /\ x.url[Len(config.baseUrl)] = "/"
        /\ startsWith(args.endpoint, "/") =>
              /\ Suffix(x.url, Len(args.endpoint)) = args.endpoint
              /\ Len(x.url) + 1 \in {Len(config.baseUrl) + Len(args.endpoint),
                                     Len(config.baseUrl) + Len(args.endpoint) + 1}

\* A base with a trailing slash and an endpoint without a leading one have
\* been joined by a single slash.
C18_Witness ==
    /\ config.baseUrl = <<"a", "/">>
    /\ args.endpoint = <<"a">>
    /\ \E x \in exchanges : x.url = <<"a", "/", "a">>

-----------------------------------------------------------------------------
(* Properties of Token Sync *)

\* The exchanges a step issues.
Issued == exchanges' \ exchanges

\* C19: on a client without apiKey every exchange is issued with the session
\* header of the token updateSessionToken pushed last (the live sessionToken,
\* whatever the client was constructed with), and without a session header
\* when the value pushed last was undefined.
C19_LastTokenSent ==
    [][\A x \in Issued :
          ~TruthyStr(config.apiKey) =>
              IF TruthyStr(config.sessionToken)
              THEN /\ Has(x.headers, "x-auth-token")
                   /\ x.headers["x-auth-token"] = config.sessionToken[1]
              ELSE ~Has(x.headers, "x-auth-token")]_vars

\* An exchange carries tok2, a token no client is constructed with.
C19_Witness ==
    /\ ~TruthyStr(config.apiKey)
    /\ \E x \in exchanges :
          Has(x.headers, "x-auth-token") /\ x.headers["x-auth-token"] = "tok2"

\* C20: no step changes baseUrl, apiKey, defaultHeaders, timeout,
\* retryAttempts or retryDelay, so they keep their construction values and
\* only sessionToken changes; and a client with an apiKey issues every
\* exchange with Authorization: Bearer <apiKey> and no session header,
\* whatever tokens were pushed.
C20_OnlyTokenChanges ==
    [][/\ config' = [config EXCEPT !.sessionToken = config'.sessionToken]
       /\ \A x \in Issued :
             TruthyStr(config.apiKey) =>
                 /\ Has(x.headers, "authorization")
                 /\ x.headers["authorization"] = "Bearer " \o config.apiKey[1]
                 /\ ~Has(x.headers, "x-auth-token")]_vars

\* A client with an apiKey has been pushed tok2 and its retry exchange goes
\* out with the Bearer header.
C20_Witness ==
    /\ TruthyStr(config.apiKey)
    /\ config.sessionToken = Some("tok2")
    /\ fetchCount = 2
    /\ \E x \in exchanges : x.headers["authorization"] = "Bearer key"

\* C21: a session-token update leaves every exchange in flight as it was
\* issued (an exchange stays unchanged for as long as it is in flight, so one
\* built before the update goes out with the old token), and every exchange
\* issued after the update is built from the token then live.
C21_UpdateNotRetroactive ==
    [][/\ config'.sessionToken # config.sessionToken => exchanges' = exchanges
       /\ \A x \in exchanges :
             (\E y \in exchanges' : y.attempt = x.attempt) => x \in exchanges'
       /\ \A x \in Issued :
             ~TruthyStr(config.apiKey) =>
                 /\ TruthyStr(config.sessionToken) =>
                       /\ Has(x.headers, "x-auth-token")
                       /\ x.headers["x-auth-token"] = config.sessionToken[1]
                 /\ ~TruthyStr(config.sessionToken) => ~Has(x.headers, "x-auth-token")]_vars

\* An exchange issued with tok1 is still in flight after tok2 was pushed.
C21_Witness ==
    /\ ~TruthyStr(config.apiKey)
    /\ config.sessionToken = Some("tok2")
    /\ \E x \in exchanges :
          Has(x.headers, "x-auth-token") /\ x.headers["x-auth-token"] = "tok1"

-----------------------------------------------------------------------------
(* Properties of the identity provider's token path *)

\* C22: the client the React context serves requests with is never
\* reconstructed: it is the instance of the first render, whatever sessions
\* the identity provider has delivered.
C22_ClientNotReconstructed == ctxClient.instance = 1

\* The token of the i-th session delivered.
DeliveredToken(i) ==
    IF delivered[i].session = None THEN None
    ELSE Some(delivered[i].session[1].access_token)

\* C23: every session delivered, by the initial load or by a change
\* notification, signed out or not, has its access token (or undefined)
\* handed to a push callback, in delivery order; the client holds the token
\* of the latest callback that ran; so once every callback has run the
\* client's sessionToken is the token of the session delivered last.
C23_LastDeliveredTokenWins ==
    /\ Len(pushes) = Len(delivered)
    /\ \A i \in 1..Len(delivered) : pushes[i] = DeliveredToken(i)
    /\ applied > 0 => config.sessionToken = DeliveredToken(applied)
    /\ (applied = Len(pushes) /\ delivered # <<>>) =>
          config.sessionToken = DeliveredToken(Len(delivered))

\* A sign-in and a sign-out were notified before the initial load resolved
\* with a session; every callback has run and the client holds its token.
C23_Witness ==
    /\ Len(delivered) = 3
    /\ delivered[1].via = "onAuthStateChange" /\ delivered[1].session # None
    /\ delivered[2].via = "onAuthStateChange" /\ delivered[2].session = None
    /\ delivered[3].via = "getSession"
    /\ applied = 3
    /\ config.sessionToken = Some("tok2")

\* The string a well-formed body encodes: the decoding of the whole body at
\* once.
WholeDecode(bytes) == CHOOSE str \in StringsUpTo(Len(bytes)) : EncodeAll(str) = bytes

\* C24: when a stream over a well-formed UTF-8 body ends normally, the
\* concatenation of the yielded strings equals the decoding of the whole
\* body, however the body was split into reads, inside a multi-byte character
\* included.
C24_ChunksConcatenateToBody ==
    (kind = "stream" /\ Returned) =>
        /\ remaining = <<>>
        /\ Concat(reads) \in Bodies
        /\ Concat(yielded) = WholeDecode(Concat(reads))

\* A body of a euro sign and an h, split inside the euro sign, was streamed to
\* its end.
C24_Witness ==
    /\ kind = "stream"
    /\ Returned
    /\ reads = <<<<226, 130>>, <<172, 104>>>>
    /\ yielded = <<<<>>, <<8364, 104>>>>

\* The bytes of the first i reads that complete no character.
HeldAfter(i) ==
    SubSeq(Concat(SubSeq(reads, 1, i)),
           Len(EncodeAll(Concat(SubSeq(yielded, 1, i)))) + 1,
           Len(Concat(SubSeq(reads, 1, i))))

\* C25: in a stream attempt, the values yielded correspond one to one and in
\* order to the reads that returned data: the i-th value holds exactly the
\* characters the i-th read completed (the empty string when it completed
\* none), and nothing is yielded once the read reporting the end of the body
\* has ended the stream.
C25_OneValuePerRead ==
    /\ [](kind = "stream" =>
            /\ Len(yielded) = Len(reads)
            /\ \A i \in 1..Len(reads) :
                  /\ Len(yielded) >= i
                  /\ EncodeAll(Concat(SubSeq(yielded, 1, i))) \o HeldAfter(i)
                        = Concat(SubSeq(reads, 1, i))
                  /\ HeldAfter(i) # <<>> => Len(HeldAfter(i)) < Need(HeldAfter(i)[1]))
    /\ [][pc = "done" => yielded' = yielded]_vars

\* A stream ended normally after two reads, the first of which held only the
\* first byte of a character and yielded the empty string.
C25_Witness ==
    /\ kind = "stream"
    /\ Returned
    /\ Len(reads) = 2
    /\ reads[1] = <<195>>
    /\ yielded[1] = <<>>
    /\ yielded[2] = <<233>>

\* C26: a reader is held only by the stream attempt that is reading or has
\* handed a chunk to the consumer; once the stream call has ended, by the end
\* of the body, by the consumer closing the generator or by a failing read,
\* no reader is held.
C26_ReaderReleased ==
    /\ readers \subseteq {fetchCount}
    /\ readers # {} => kind = "stream" /\ pc \in {"read", "yield"}
    /\ pc = "done" => readers = {}

\* The consumer closed the generator after the first chunk of a body that had
\* more to give, and the reader was released.
C26_Witness ==
    /\ kind = "stream"
    /\ pc = "done"
    /\ outcome = Some([tag |-> "closed"])
    /\ Len(yielded) = 1
    /\ remaining # <<>>
    /\ readers = {}

\* C27: in a stream call, an attempt that ended with NO_BODY is the last one:
\* no delay follows it, the call has ended by throwing that very
\* TimbalApiError, and nothing was yielded, whatever retry budget remains.
C27_NoBodyTerminal ==
    kind = "stream" =>
        \A i \in 1..Len(attemptErrs) :
            (IsApiError(attemptErrs[i]) /\ attemptErrs[i].code = "NO_BODY") =>
                /\ i = Len(attemptErrs)
                /\ Len(sleeps) = i - 1
                /\ pc = "done"
                /\ Threw
                /\ outcome[1].error = attemptErrs[i]
                /\ yielded = <<>>

\* The first attempt was retried, the second got a response without a body,
\* and the call threw NO_BODY although one more retry was allowed.
C27_Witness ==
    /\ kind = "stream"
    /\ config.retryAttempts = Some(MaxRetry)
    /\ fetchCount = 2
    /\ retryCount < MaxRetry
    /\ Threw
    /\ IsApiError(outcome[1].error)
    /\ outcome[1].error.code = "NO_BODY"

\* C28: stream retries as request does. The i-th attempt is followed by a
\* delay exactly when its error is a TimbalApiError with TIMEOUT_ERROR,
\* NETWORK_ERROR or a status of 500 or more and fewer than retryAttempts
\* retries were made; the k-th delay is retryDelay * k; at most retryAttempts
\* retries are made; when the call gives up the consumer gets the error of
\* the last attempt unchanged; and values are yielded only by an attempt
\* whose exchange succeeded, one per read of that attempt.
C28_StreamRetryPolicy ==
    kind = "stream" =>
        /\ \A i \in 1..Len(attemptErrs) :
             (Len(sleeps) >= i) <=>
                 /\ RetryableClass(attemptErrs[i])
                 /\ config.retryAttempts # None
                 /\ i - 1 < config.retryAttempts[1]
        /\ config.retryDelay # None =>
             \A k \in 1..Len(sleeps) : sleeps[k] = config.retryDelay[1] * k
        /\ fetchCount <= Budget + 1
        /\ Len(attemptErrs) <= fetchCount
        /\ (pc = "done" /\ Threw) =>
             /\ Len(attemptErrs) = fetchCount
             /\ outcome[1].error = attemptErrs[fetchCount]
        /\ yielded # <<>> =>
             /\ response # None
             /\ Ok(response[1].status)
             /\ Len(yielded) = Len(reads)
             /\ Len(attemptErrs) = fetchCount => attemptErrs[fetchCount] = ReadFailure

\* A stream call with the largest budget and delay gave up on a server error
\* after every retry, having yielded nothing.
C28_Witness ==
    /\ kind = "stream"
    /\ config.retryAttempts = Some(MaxRetry)
    /\ config.retryDelay = Some(MaxDelay)
    /\ pc = "done"
    /\ Threw
    /\ fetchCount = MaxRetry + 1
    /\ sleeps = [k \in 1..MaxRetry |-> MaxDelay * k]
    /\ IsApiError(outcome[1].error)
    /\ outcome[1].error.statusCode >= 500
    /\ yielded = <<>>

\* C29, as claimed: in a stream call, a failed body read that leaves retry
\* budget is followed by a backoff delay (after which the stream is started
\* again), so the call does not end on that read failure.
C29_ReadFailureRestarts ==
    kind = "stream" =>
        \A i \in 1..Len(attemptErrs) :
            (attemptErrs[i] = ReadFailure /\ i - 1 < Budget) => Len(sleeps) >= i

\* C30, as claimed: a query that fails before any exchange, for want of an
\* orgId or a kbId, has waited no delay and throws a TimbalApiError whose
\* code is CONFIG_ERROR.
C30_MissingIdsConfigError ==
    (kind = "query" /\ Threw /\ fetchCount = 0) =>
        /\ exchanges = {}
        /\ slept = 0
        /\ sleeps = <<>>
        /\ IsApiError(outcome[1].error)
        /\ outcome[1].error.code = "CONFIG_ERROR"

-----------------------------------------------------------------------------
(* Properties of query *)

\* The path of the query endpoint of an organisation and a knowledge base.
QueryPath(o, k) == <<"/", "orgs", "/", o, "/", "kbs", "/", k, "/", "query">>

\* The identifier query is to use: the one passed in params when one is
\* passed, else the configured default.
Preferred(param, default) == IF param = None THEN default ELSE param

\* C31: every exchange of a query call, the first and each retry, is a POST
\* to <baseUrl>/orgs/{orgId}/kbs/{kbId}/query with content type
\* application/json and the body {"sql": sql}; on the call itself orgId and
\* kbId are the identifiers passed in params where passed, else the
\* configured defaults; and the call retries as request does: an attempt is
\* followed by a delay exactly when its error is retryable and budget
\* remains, the k-th delay being retryDelay * k.
C31_QueryRequest ==
    /\ [][\A x \in Issued :
            kind' = "query" =>
                /\ x.method = "POST"
                /\ x.body = Some([isString |-> TRUE, text |-> "{\"sql\":\"SELECT 1\"}"])
                /\ Has(x.headers, "content-type")
                /\ x.headers["content-type"] = "application/json"
                /\ \E o \in {"org1", "orgEnv"}, k \in {"kb1", "kbEnv"} :
                      x.url = config.baseUrl \o QueryPath(o, k)
                /\ kind = "query" => x.url = buildUrl(config.baseUrl, args.endpoint)
                /\ \A po \in OrgIds, pk \in KbIds, eo \in EnvOrgIds, ek \in EnvKbIds :
                      CallQuery(po, pk, eo, ek) =>
                          x.url = config.baseUrl
                                    \o QueryPath(Preferred(po, eo)[1], Preferred(pk, ek)[1])]_vars
    /\ [](kind = "query" =>
            /\ \A i \in 1..Len(attemptErrs) :
                 (Len(sleeps) >= i) <=>
                     /\ RetryableClass(attemptErrs[i])
                     /\ i - 1 < Budget
            /\ config.retryDelay # None =>
                 \A k \in 1..Len(sleeps) : sleeps[k] = config.retryDelay[1] * k
            /\ fetchCount <= Budget + 1)

\* The retry of a query is in flight, to the organisation passed in params
\* and the knowledge base of the configured default.
C31_Witness ==
    /\ kind = "query"
    /\ fetchCount = 2
    /\ \E x \in exchanges :
         /\ x.attempt = 2
         /\ x.method = "POST"
         /\ x.url = BaseUrl \o QueryPath("org1", "kbEnv")

-----------------------------------------------------------------------------
(* Properties of construction *)

\* A client exists: the constructor has returned.
ClientExists == pc # "new" /\ kind # "constructor"

\* C32: new Timbal(cfg) returns a client exactly when the resolved baseUrl
\* (the argument's, else the environment's) is non-empty and the Timbal IAM
\* flag is on or the resolved apiKey (the argument's, else the environment's)
\* is non-empty; the client then holds these resolved values; otherwise the
\* constructor throws an error and no client exists. Every client that exists
\* has a non-empty baseUrl, and an apiKey unless the IAM flag is on.
C32_ConstructionValidated ==
    /\ [][\A cfg \in ConfigArgs, envKey \in EnvApiKeys, envBase \in EnvBaseUrls :
            Construct(cfg, envKey, envBase) =>
                LET key == Preferred(cfg.apiKey, envKey)
                    url == Preferred(cfg.baseUrl, envBase)
                    valid == /\ url # None /\ url # Some(<<>>)
                             /\ \/ authConfig.timbalIAM
                                \/ key # None /\ key # Some("")
                IN  IF valid
                    THEN /\ pc' = "idle"
                         /\ outcome' = None
                         /\ config'.baseUrl = url[1]
                         /\ config'.apiKey = key
                    ELSE /\ pc' = "done"
                         /\ outcome' # None
                         /\ outcome'[1].tag = "throw"
                         /\ config' = None]_vars
    /\ [](ClientExists =>
            /\ config # None
            /\ config.baseUrl # <<>>
            /\ authConfig.timbalIAM \/ (config.apiKey # None /\ config.apiKey # Some("")))
    /\ [](~ClientExists => config = None)

\* A client was constructed without the IAM flag, with the environment's
\* apiKey and the argument's baseUrl, and has answered a request.
C32_Witness ==
    /\ ~authConfig.timbalIAM
    /\ config # None
    /\ config.apiKey = Some("envKey")
    /\ config.baseUrl = BaseUrl
    /\ kind = "request"
    /\ Returned

-----------------------------------------------------------------------------
(* Properties of the guarded routes *)

-----------------------------------------------------------------------------
(* Termination *)

\* C34: when every exchange, body decode and backoff delay completes, a call
\* of request ends, by returning an envelope or by throwing, and it never
\* makes more than retryAttempts + 1 attempts.
C34_RequestTerminates ==
    /\ (kind = "request") ~> (pc = "done" /\ (Returned \/ Threw))
    /\ [](kind = "request" => fetchCount <= Budget + 1)

\* A call of request returned an envelope from the last attempt its budget
\* allowed.
C34_Witness ==
    /\ kind = "request"
    /\ pc = "done"
    /\ Returned
    /\ config.retryAttempts = Some(MaxRetry)
    /\ fetchCount = MaxRetry + 1

-----------------------------------------------------------------------------
(* Properties of the defaults *)

\* C35: on a client whose configuration has no retryAttempts, a call of
\* request or stream issues one exchange at most, waits for no backoff delay,
\* and ends with the error of its first failed attempt, whatever the class of
\* that error.
C35_NoRetryWithoutBudget ==
    (config.retryAttempts = None /\ kind \in {"request", "stream"}) =>
        /\ fetchCount = 1
        /\ retryCount = 0
        /\ sleeps = <<>>
        /\ slept = 0
        /\ sleepLeft = None
        /\ pc # "sleep"
        /\ Len(attemptErrs) <= 1
        /\ attemptErrs # <<>> =>
             /\ pc = "done"
             /\ Threw
             /\ outcome[1].error = attemptErrs[1]

\* A stream call on a client without retryAttempts ended on the timeout of
\* its only attempt.
C35_Witness ==
    /\ config.retryAttempts = None
    /\ kind = "stream"
    /\ pc = "done"
    /\ fetchCount = 1
    /\ attemptErrs # <<>>
    /\ IsApiError(attemptErrs[1])
    /\ attemptErrs[1].code = "TIMEOUT_ERROR"
    /\ attemptErrs[1].statusCode = 0

-----------------------------------------------------------------------------
(* Properties of the token across attempts *)

\* C36: on a client without apiKey, each attempt of a call carries the
\* session token that was live when that attempt started, and no session
\* header when none was: a token pushed during a backoff delay or while an
\* earlier attempt was in flight is carried by every attempt started after
\* it, whatever the earlier attempts of the same call carried.
C36_HeadersPerAttempt ==
    ~TruthyStr(config.apiKey) =>
        /\ Len(sent) = fetchCount
        /\ \A k \in 1..Len(sent) :
             IF TruthyStr(sent[k].live)
             THEN /\ Has(sent[k].headers, "x-auth-token")
                  /\ sent[k].headers["x-auth-token"] = sent[k].live[1]
             ELSE ~Has(sent[k].headers, "x-auth-token")
        /\ \A x \in exchanges : x.headers = sent[x.attempt].headers

\* The first attempt of a call carried tok1; tok2 was pushed before the retry,
\* which is in flight with tok2.
C36_Witness ==
    /\ ~TruthyStr(config.apiKey)
    /\ kind = "request"
    /\ Len(sent) = 2
    /\ sent[1].live = Some("tok1")
    /\ sent[2].live = Some("tok2")
    /\ Has(sent[1].headers, "x-auth-token")
    /\ sent[1].headers["x-auth-token"] = "tok1"
    /\ \E x \in exchanges :
         /\ x.attempt = 2
         /\ Has(x.headers, "x-auth-token")
         /\ x.headers["x-auth-token"] = "tok2"

-----------------------------------------------------------------------------
(* Properties of the body after the response *)

\* The body of a 2xx response is being consumed: request awaits json(), or
\* stream awaits a read or the consumer.
ConsumingBody == pc \in {"json", "read", "yield"}

\* C37: while the body of a response is consumed no watchdog is pending and
\* no exchange is in flight, so nothing but the body itself can end the wait:
\* the call has no outcome yet, and the step that ends the wait neither
\* produces a TIMEOUT_ERROR nor starts a backoff delay or a new exchange.
C37_NoWatchdogOnBody ==
    /\ [](ConsumingBody =>
            /\ timers = {}
            /\ exchanges = {}
            /\ sleepLeft = None
            /\ outcome = None
            /\ response # None
            /\ Is2xx(response[1].status))
    /\ [][ConsumingBody =>
            /\ pc' # "sleep"
            /\ pc' # "fetch"
            /\ fetchCount' = fetchCount
            /\ \A i \in 1..Len(attemptErrs') :
                  i > Len(attemptErrs) =>
                      ~(IsApiError(attemptErrs'[i]) /\ attemptErrs'[i].code = "TIMEOUT_ERROR")
            /\ outcome' # None /\ outcome'[1].tag = "throw" /\ IsApiError(outcome'[1].error)
                  => outcome'[1].error.code # "TIMEOUT_ERROR"]_vars

\* On a client with a timeout and retries left, a stream has yielded a chunk
\* and awaits the next read of a body that has more to give.
C37_Witness ==
    /\ TruthyNum(config.timeout)
    /\ config.retryAttempts = Some(MaxRetry)
    /\ kind = "stream"
    /\ pc = "read"
    /\ Len(reads) = 1
    /\ remaining # <<>>
    /\ timers = {}

-----------------------------------------------------------------------------
(* Properties of the end of a stream *)

\* The consumer has closed the generator.
Closed == outcome = Some([tag |-> "closed"])

\* C38: when the consumer closes a stream after some chunk, the call has
\* ended without an error: the reader is released, every read made was
\* yielded, the attempt in progress has recorded no failure, no exchange,
\* watchdog or backoff delay is pending, and afterwards nothing is read,
\* yielded, waited for or issued, whatever retry budget remains.
C38_EarlyTerminationEnds ==
    /\ [](Closed =>
            /\ kind = "stream"
            /\ pc = "done"
            /\ readers = {}
            /\ yielded # <<>>
            /\ Len(reads) = Len(yielded)
            /\ Len(attemptErrs) = fetchCount - 1
            /\ Len(sleeps) = fetchCount - 1
            /\ exchanges = {}
            /\ timers = {}
            /\ sleepLeft = None)
    /\ [][Closed =>
            /\ Closed'
            /\ reads' = reads
            /\ yielded' = yielded
            /\ fetchCount' = fetchCount
            /\ sleeps' = sleeps]_vars

\* After one retry, the consumer closed the stream on the first chunk, with
\* body and retry budget left.
C38_Witness ==
    /\ Closed
    /\ config.retryAttempts = Some(MaxRetry)
    /\ fetchCount = 2
    /\ retryCount < MaxRetry
    /\ Len(yielded) = 1
    /\ remaining # <<>>

\* C39: one stream call holds at most one body reader; none is held while a
\* backoff delay runs or an exchange is in flight; and whenever an attempt
\* fails, its reader has been released by the time the failure is handled,
\* hence before the delay and the exchange of the next attempt.
C39_OneReaderAtMost ==
    /\ [](/\ Cardinality(readers) <= 1
          /\ pc \in {"sleep", "fetch"} => readers = {}
          /\ exchanges # {} => readers = {})
    /\ [][/\ Len(attemptErrs') > Len(attemptErrs) => readers' = {}
          /\ Len(sleeps') > Len(sleeps) => readers' = {}
          /\ Issued # {} => readers = {} /\ readers' = {}]_vars

\* A stream was started again after a failed attempt, and the second attempt
\* holds the only reader.
C39_Witness ==
    /\ kind = "stream"
    /\ fetchCount = 2
    /\ Len(attemptErrs) = 1
    /\ Len(sleeps) = 1
    /\ readers = {2}
    /\ pc = "read"

====
